---- MODULE Spec2Model ----
(***************************************************************************)
(* State-machine model of the gameplay simulation core: 16.16 fixed-point  *)
(* helpers, tile physics, the enemy and projectile pools, the player       *)
(* damage path and the singleton boss with its ten AI machines.            *)
(***************************************************************************)
EXTENDS Integers, Sequences, FiniteSets, TLC

VARIABLES e_pool, e_count, p_pool, p_count, g_boss, g_player, g_camera,
          g_current_room, op, budget

vars == <<e_pool, e_count, p_pool, p_count, g_boss, g_player, g_camera,
          g_current_room, op, budget>>

(***************************************************************************)
(* Program constants                                                       *)
(***************************************************************************)
FX_SHIFT == 16
FX_ONE == 65536
FX_HALF == 32768
TILE_SIZE == 16
TILE_SHIFT == 4
MAX_ENEMIES == 16
MAX_PROJECTILES == 32

COLL_AIR == 0
COLL_SOLID == 1
COLL_SPECIAL_BASE == 32
COLL_SPECIAL_SHOT == 33
COLL_SPECIAL_BOMB == 34
COLL_SPECIAL_CRUMBLE == 35
COLL_SPECIAL_SAVE == 36
COLL_HAZARD_SPIKE == 49
COLL_HAZARD_LAVA == 50

DIR_LEFT == 0
DIR_RIGHT == 1

ENV_AIR == 0
ENV_WATER == 1
ENV_LAVA == 2

GRAVITY_AIR == 4700
GRAVITY_WATER == 1343
GRAVITY_LAVA == 1510
TERMINAL_VEL_AIR == 327680
TERMINAL_VEL_WATER == 327680
TERMINAL_VEL_LAVA == 327680
JUMP_VEL_NORMAL == 299008
RUN_SPEED == 131072
WALK_SPEED == 98304
JUMP_VEL_SPIN == 294912
MORPH_BALL_SPEED == 131072
SHINESPARK_SPEED == 917504
BOMB_TIMER_FRAMES == 87
BOMB_JUMP_VEL == 163840
KNOCKBACK_VEL_X == 131072
KNOCKBACK_VEL_Y == 196608
INVULN_FRAMES == 60
KNOCKBACK_FRAMES == 24
EQUIP_MORPH_BALL == 1
SAMUS_HALF_W == 524288
SAMUS_HALF_H == 1310720
SAMUS_CROUCH_H == 917504
SAMUS_MORPH_H == 262144
PLAYER_START_HP == 99

ENEMY_NONE == 0
ENEMY_ZOOMER == 1
ENEMY_GEEMER == 2
ENEMY_WAVER == 3
ENEMY_RINKA == 4
ENEMY_SIDEHOPPER == 5
ENEMY_KI_HUNTER == 6
ENEMY_ZEBESIAN == 7
ENEMY_TYPE_COUNT == 8

PROJ_NONE == 0
PROJ_POWER_BEAM == 1
PROJ_ICE_BEAM == 2
PROJ_WAVE_BEAM == 3
PROJ_SPAZER_BEAM == 4
PROJ_PLASMA_BEAM == 5
PROJ_MISSILE == 6
PROJ_SUPER_MISSILE == 7
PROJ_BOMB == 8
PROJ_POWER_BOMB == 9
PROJ_ENEMY_BULLET == 10
PROJ_TYPE_COUNT == 11

PROJ_OWNER_PLAYER == 0
PROJ_OWNER_ENEMY == 1

(***************************************************************************)
(* Fixed-point helpers (sm_types.h, fixed_math.c)                          *)
(***************************************************************************)
INT_TO_FX(i) == i * FX_ONE

\* Arithmetic right shift by 16: floor division.
FX_TO_INT(f) == f \div FX_ONE

\* int16_t conversion of an int value (two's complement wrap).
S16(v) == ((v + 32768) % 65536) - 32768

\* uint16_t conversion of an int value.
U16(v) == v % 65536

\* (uint8_t) conversion.
U8(v) == v % 256

\* Pos >> TILE_SHIFT after FX_TO_INT.
fx_to_tile(pos) == FX_TO_INT(pos) \div TILE_SIZE

\* (a * b) >> 16 with a 64-bit intermediate, evaluated limb by limb so that
\* no partial product leaves the 32-bit range of the model checker's integers.
fx_mul(a, b) ==
  LET bh == b \div FX_ONE
      bl == b % FX_ONE
      ah == a \div FX_ONE
      al == a % FX_ONE
      alh == al \div 256
      all == al % 256
      lo == (alh * bl + ((all * bl) \div 256)) \div 256
  IN a * bh + ah * bl + lo

\* floor((a * 2^k) / b) for a >= 0, b > 0, by long division (one bit per step).
RECURSIVE DivShift(_, _, _)
DivShift(a, b, k) ==
  IF k = 0 THEN [q |-> a \div b, r |-> a % b]
  ELSE LET p == DivShift(a, b, k - 1)
       IN [q |-> 2 * p.q + ((2 * p.r) \div b), r |-> (2 * p.r) % b]

\* ((int64_t)a << FX_SHIFT) / b, truncating toward zero as C division does.
fx_div(a, b) ==
  LET m == DivShift(IF a < 0 THEN -a ELSE a, IF b < 0 THEN -b ELSE b, FX_SHIFT).q
  IN IF (a < 0) = (b < 0) THEN m ELSE -m

\* Newton iteration of fx_sqrt on val = a << FX_SHIFT, from guess, at most
\* cap rounds: the guess it ends with, the rounds entered and whether the
\* loop ended by a break.  val / guess is taken by long division on a, so
\* that no intermediate leaves the 32-bit range of the model checker's
\* integers.
RECURSIVE fx_sqrt_loop(_, _, _, _)
fx_sqrt_loop(a, guess, i, cap) ==
  IF i >= cap THEN [guess |-> guess, rounds |-> i, broke |-> FALSE]
  ELSE IF guess = 0 THEN [guess |-> guess, rounds |-> i + 1, broke |-> TRUE]
  ELSE LET step(next) ==
             IF next >= guess THEN [guess |-> guess, rounds |-> i + 1, broke |-> TRUE]
             ELSE fx_sqrt_loop(a, next, i + 1, cap)
       IN step((guess + DivShift(a, guess, FX_SHIFT).q) \div 2)

\* fx_sqrt with 8 rounds.
fx_sqrt_8_rounds(a) ==
  IF a <= 0 THEN [guess |-> 0, rounds |-> 0, broke |-> TRUE]
  ELSE fx_sqrt_loop(a, IF a > FX_ONE THEN 16777216 ELSE 65536, 0, 8)

\* val > 1 << 32 is a > 1 << 16; 1 << 24 and 1 << 16 are the first guesses.
fx_sqrt(a) ==
  IF a <= 0 THEN [guess |-> 0, rounds |-> 0, broke |-> TRUE]
  ELSE fx_sqrt_loop(a, IF a > FX_ONE THEN 16777216 ELSE 65536, 0, 16)

sin_lut ==
  <<
          0,   1608,   3216,   4821,   6424,   8022,   9616,  11204,
      12785,  14359,  15924,  17479,  19024,  20557,  22078,  23586,
      25080,  26558,  28020,  29466,  30893,  32303,  33692,  35062,
      36410,  37736,  39040,  40320,  41576,  42806,  44011,  45190,
      46341,  47464,  48559,  49624,  50660,  51665,  52639,  53581,
      54491,  55368,  56212,  57022,  57798,  58538,  59244,  59914,
      60547,  61145,  61705,  62228,  62714,  63162,  63572,  63944,
      64277,  64571,  64827,  65043,  65220,  65358,  65457,  65516,
      65536,  65516,  65457,  65358,  65220,  65043,  64827,  64571,
      64277,  63944,  63572,  63162,  62714,  62228,  61705,  61145,
      60547,  59914,  59244,  58538,  57798,  57022,  56212,  55368,
      54491,  53581,  52639,  51665,  50660,  49624,  48559,  47464,
      46341,  45190,  44011,  42806,  41576,  40320,  39040,  37736,
      36410,  35062,  33692,  32303,  30893,  29466,  28020,  26558,
      25080,  23586,  22078,  20557,  19024,  17479,  15924,  14359,
      12785,  11204,   9616,   8022,   6424,   4821,   3216,   1608,
          0,  -1608,  -3216,  -4821,  -6424,  -8022,  -9616, -11204,
     -12785, -14359, -15924, -17479, -19024, -20557, -22078, -23586,
     -25080, -26558, -28020, -29466, -30893, -32303, -33692, -35062,
     -36410, -37736, -39040, -40320, -41576, -42806, -44011, -45190,
     -46341, -47464, -48559, -49624, -50660, -51665, -52639, -53581,
     -54491, -55368, -56212, -57022, -57798, -58538, -59244, -59914,
     -60547, -61145, -61705, -62228, -62714, -63162, -63572, -63944,
     -64277, -64571, -64827, -65043, -65220, -65358, -65457, -65516,
     -65536, -65516, -65457, -65358, -65220, -65043, -64827, -64571,
     -64277, -63944, -63572, -63162, -62714, -62228, -61705, -61145,
     -60547, -59914, -59244, -58538, -57798, -57022, -56212, -55368,
     -54491, -53581, -52639, -51665, -50660, -49624, -48559, -47464,
     -46341, -45190, -44011, -42806, -41576, -40320, -39040, -37736,
     -36410, -35062, -33692, -32303, -30893, -29466, -28020, -26558,
     -25080, -23586, -22078, -20557, -19024, -17479, -15924, -14359,
     -12785, -11204,  -9616,  -8022,  -6424,  -4821,  -3216,  -1608 >>

\* sin_lut[angle & 0xFF]
fx_sin(angle) == sin_lut[(angle % 256) + 1]

Abs(v) == IF v < 0 THEN -v ELSE v

(***************************************************************************)
(* Room collision oracle (room.c)                                          *)
(***************************************************************************)
\* Collision grid built by load_room_0_0: floor, side walls, platform,
\* save-station tile and the door opening punched into the right wall.
Room00Cell(x, y) ==
  LET w == 16
      h == 12
      base == IF y >= h - 2 THEN COLL_SOLID
              ELSE IF x = 0 \/ x = w - 1 THEN COLL_SOLID
              ELSE IF y = 6 /\ x >= 5 /\ x <= 10 THEN COLL_SOLID
              ELSE COLL_AIR
      save == IF x = 3 /\ y = 9 THEN COLL_SPECIAL_SAVE ELSE base
  IN IF x = 15 /\ y >= 7 /\ y < 7 + 3 THEN COLL_AIR ELSE save

load_room_0_0 ==
  [loaded |-> TRUE, width_tiles |-> 16, height_tiles |-> 12,
   collision |-> [idx \in 0..(16 * 12 - 1) |-> Room00Cell(idx % 16, idx \div 16)]]

\* Room (0,1), the 32x12 wide corridor: shell, three platforms, a spike
\* row, two shot blocks, a bomb block, a crumble bridge and two door
\* openings, written in the order of the loader (later writes win).
Room01Cell(x, y) ==
  LET w == 32
      h == 12
      shell == IF y >= h - 2 THEN COLL_SOLID
               ELSE IF x = 0 \/ x = w - 1 THEN COLL_SOLID
               ELSE COLL_AIR
  IN IF x \in {0, 31} /\ y >= 7 /\ y < 7 + 3 THEN COLL_AIR
     ELSE IF y = 5 /\ x >= 3 /\ x <= 5 THEN COLL_SPECIAL_CRUMBLE
     ELSE IF y = 8 /\ x = 22 THEN COLL_SPECIAL_BOMB
     ELSE IF y = 8 /\ x >= 20 /\ x <= 21 THEN COLL_SPECIAL_SHOT
     ELSE IF y = 9 /\ x >= 12 /\ x <= 16 THEN COLL_HAZARD_SPIKE
     ELSE IF y = 7 /\ x >= 22 /\ x <= 26 THEN COLL_SOLID
     ELSE IF y = 5 /\ x >= 14 /\ x <= 18 THEN COLL_SOLID
     ELSE IF y = 8 /\ x >= 6 /\ x <= 10 THEN COLL_SOLID
     ELSE shell

load_room_0_1 ==
  [loaded |-> TRUE, width_tiles |-> 32, height_tiles |-> 12,
   collision |-> [idx \in 0..(32 * 12 - 1) |-> Room01Cell(idx % 32, idx \div 32)]]

\* Enemy spawn table of room (0,1): <<enemy_id, x, y>> in pixels.
room_0_1_spawns == << <<2, 128, 148>>, <<5, 256, 120>>, <<1, 400, 148>> >>

room_init ==
  [loaded |-> FALSE, width_tiles |-> 0, height_tiles |-> 0,
   collision |-> [idx \in 0..(16 * 12 - 1) |-> 0]]

\* room_get_collision answering air outside the grid.
room_get_collision_air_outside(room, tile_x, tile_y) ==
  IF ~room.loaded THEN COLL_SOLID
  ELSE IF tile_x < 0 \/ tile_x >= room.width_tiles THEN COLL_AIR
  ELSE IF tile_y < 0 \/ tile_y >= room.height_tiles THEN COLL_AIR
  ELSE room.collision[tile_y * room.width_tiles + tile_x]

room_get_collision(room, tile_x, tile_y) ==
  IF ~room.loaded THEN COLL_SOLID
  ELSE IF tile_x < 0 \/ tile_x >= room.width_tiles THEN COLL_SOLID
  ELSE IF tile_y < 0 \/ tile_y >= room.height_tiles THEN COLL_SOLID
  ELSE room.collision[tile_y * room.width_tiles + tile_x]

\* room_set_collision without the column range test.
room_set_collision_no_x_check(room, tile_x, tile_y, new_type) ==
  IF ~room.loaded THEN room
  ELSE IF tile_y < 0 \/ tile_y >= room.height_tiles THEN room
  ELSE LET idx == tile_y * room.width_tiles + tile_x
       IN IF idx \in DOMAIN room.collision
          THEN [room EXCEPT !.collision[idx] = new_type]
          ELSE room

room_set_collision(room, tile_x, tile_y, new_type) ==
  IF ~room.loaded THEN room
  ELSE IF tile_x < 0 \/ tile_x >= room.width_tiles THEN room
  ELSE IF tile_y < 0 \/ tile_y >= room.height_tiles THEN room
  ELSE [room EXCEPT !.collision[tile_y * room.width_tiles + tile_x] = new_type]

room_unload(room) ==
  [room EXCEPT !.loaded = FALSE, !.width_tiles = 0, !.height_tiles = 0]

\* room_load for the rooms of the table that the model builds; an id that
\* is not in the table leaves the room unloaded.
room_load(room, area_id, room_id) ==
  LET unloaded == IF room.loaded THEN room_unload(room) ELSE room
  IN IF area_id = 0 /\ room_id = 0 THEN load_room_0_0
     ELSE IF area_id = 0 /\ room_id = 1 THEN load_room_0_1
     ELSE unloaded

(***************************************************************************)
(* Physics (physics.c)                                                     *)
(***************************************************************************)
ZeroContact ==
  [on_ground |-> FALSE, on_ceiling |-> FALSE, on_wall_left |-> FALSE,
   on_wall_right |-> FALSE, on_hazard |-> FALSE, hazard_type |-> 0]

ZeroBody ==
  [pos |-> [x |-> 0, y |-> 0], vel |-> [x |-> 0, y |-> 0],
   accel |-> [x |-> 0, y |-> 0], hitbox |-> [half_w |-> 0, half_h |-> 0],
   contact |-> ZeroContact, env |-> 0]

row_has_solid(room, tile_x_min, tile_x_max, tile_y) ==
  \E tx \in tile_x_min..tile_x_max : room_get_collision(room, tx, tile_y) = COLL_SOLID

col_has_solid(room, tile_x, tile_y_min, tile_y_max) ==
  \E ty \in tile_y_min..tile_y_max : room_get_collision(room, tile_x, ty) = COLL_SOLID

resolve_horizontal(room, body) ==
  LET top == body.pos.y - body.hitbox.half_h
      bottom == body.pos.y + body.hitbox.half_h
      tile_t == fx_to_tile(top)
      tile_b == fx_to_tile(bottom - 1)
  IN IF body.vel.x > 0 THEN
       LET right == body.pos.x + body.hitbox.half_w
           tile_x == fx_to_tile(right - 1)
       IN IF col_has_solid(room, tile_x, tile_t, tile_b)
          THEN [body EXCEPT !.pos.x = INT_TO_FX(tile_x * TILE_SIZE) - body.hitbox.half_w,
                            !.vel.x = 0,
                            !.contact.on_wall_right = TRUE]
          ELSE body
     ELSE IF body.vel.x < 0 THEN
       LET left == body.pos.x - body.hitbox.half_w
           tile_x == fx_to_tile(left)
       IN IF col_has_solid(room, tile_x, tile_t, tile_b)
          THEN [body EXCEPT !.pos.x = INT_TO_FX((tile_x + 1) * TILE_SIZE) + body.hitbox.half_w,
                            !.vel.x = 0,
                            !.contact.on_wall_left = TRUE]
          ELSE body
     ELSE body

\* resolve_vertical that stops the body on a floor without moving it back
\* to the tile boundary.
resolve_vertical_no_snap(room, body) ==
  LET left == body.pos.x - body.hitbox.half_w
      right == body.pos.x + body.hitbox.half_w
      tile_l == fx_to_tile(left)
      tile_r == fx_to_tile(right - 1)
  IN IF body.vel.y > 0 THEN
       LET bottom == body.pos.y + body.hitbox.half_h
           tile_y == fx_to_tile(bottom - 1)
       IN IF row_has_solid(room, tile_l, tile_r, tile_y)
          THEN [body EXCEPT !.vel.y = 0,
                            !.contact.on_ground = TRUE]
          ELSE body
     ELSE IF body.vel.y < 0 THEN
       LET top == body.pos.y - body.hitbox.half_h
           tile_y == fx_to_tile(top)
       IN IF row_has_solid(room, tile_l, tile_r, tile_y)
          THEN [body EXCEPT !.pos.y = INT_TO_FX((tile_y + 1) * TILE_SIZE) + body.hitbox.half_h,
                            !.vel.y = 0,
                            !.contact.on_ceiling = TRUE]
          ELSE body
     ELSE body

resolve_vertical(room, body) ==
  LET left == body.pos.x - body.hitbox.half_w
      right == body.pos.x + body.hitbox.half_w
      tile_l == fx_to_tile(left)
      tile_r == fx_to_tile(right - 1)
  IN IF body.vel.y > 0 THEN
       LET bottom == body.pos.y + body.hitbox.half_h
           tile_y == fx_to_tile(bottom - 1)
       IN IF row_has_solid(room, tile_l, tile_r, tile_y)
          THEN [body EXCEPT !.pos.y = INT_TO_FX(tile_y * TILE_SIZE) - body.hitbox.half_h,
                            !.vel.y = 0,
                            !.contact.on_ground = TRUE]
          ELSE body
     ELSE IF body.vel.y < 0 THEN
       LET top == body.pos.y - body.hitbox.half_h
           tile_y == fx_to_tile(top)
       IN IF row_has_solid(room, tile_l, tile_r, tile_y)
          THEN [body EXCEPT !.pos.y = INT_TO_FX((tile_y + 1) * TILE_SIZE) + body.hitbox.half_h,
                            !.vel.y = 0,
                            !.contact.on_ceiling = TRUE]
          ELSE body
     ELSE body

check_ground_sensor(room, body) ==
  IF body.contact.on_ground THEN body
  ELSE LET sensor_y == body.pos.y + body.hitbox.half_h
           tile_y == fx_to_tile(sensor_y)
           tile_l == fx_to_tile(body.pos.x - body.hitbox.half_w)
           tile_r == fx_to_tile(body.pos.x + body.hitbox.half_w - 1)
       IN IF row_has_solid(room, tile_l, tile_r, tile_y)
          THEN [body EXCEPT !.contact.on_ground = TRUE]
          ELSE body

\* physics_apply_gravity without the terminal velocity clamp.
physics_apply_gravity_no_clamp(body) ==
  LET gravity == IF body.env = ENV_WATER THEN GRAVITY_WATER
                 ELSE IF body.env = ENV_LAVA THEN GRAVITY_LAVA
                 ELSE GRAVITY_AIR
  IN [body EXCEPT !.vel.y = body.vel.y + gravity]

physics_apply_gravity(body) ==
  LET gravity == IF body.env = ENV_WATER THEN GRAVITY_WATER
                 ELSE IF body.env = ENV_LAVA THEN GRAVITY_LAVA
                 ELSE GRAVITY_AIR
      terminal == IF body.env = ENV_WATER THEN TERMINAL_VEL_WATER
                  ELSE IF body.env = ENV_LAVA THEN TERMINAL_VEL_LAVA
                  ELSE TERMINAL_VEL_AIR
      vy == body.vel.y + gravity
  IN [body EXCEPT !.vel.y = IF vy > terminal THEN terminal ELSE vy]

\* physics_update_body without step 3, the clearing of the contact flags.
physics_update_body_keep_contact(room, body) ==
  LET accelerate(b) == [b EXCEPT !.vel.x = b.vel.x + b.accel.x, !.vel.y = b.vel.y + b.accel.y]
      move_x(b) == resolve_horizontal(room, [b EXCEPT !.pos.x = b.pos.x + b.vel.x])
      move_y(b) == resolve_vertical(room, [b EXCEPT !.pos.y = b.pos.y + b.vel.y])
  IN check_ground_sensor(room, move_y(move_x(accelerate(physics_apply_gravity(body)))))

physics_update_body(room, body) ==
  LET accelerate(b) == [b EXCEPT !.vel.x = b.vel.x + b.accel.x,
                                 !.vel.y = b.vel.y + b.accel.y,
                                 !.contact = ZeroContact]
      move_x(b) == resolve_horizontal(room, [b EXCEPT !.pos.x = b.pos.x + b.vel.x])
      move_y(b) == resolve_vertical(room, [b EXCEPT !.pos.y = b.pos.y + b.vel.y])
  IN check_ground_sensor(room,
       move_y(move_x(accelerate(physics_apply_gravity(body)))))

(***************************************************************************)
(* Camera shake hook (camera.c)                                            *)
(***************************************************************************)
camera_init == [shake_frames |-> 0, shake_mag |-> 0]

camera_shake(cam, frames, magnitude) ==
  [cam EXCEPT !.shake_frames = frames, !.shake_mag = magnitude]

(***************************************************************************)
(* Player damage path (player.c)                                           *)
(***************************************************************************)
player_init ==
  [body |-> [ZeroBody EXCEPT !.pos = [x |-> INT_TO_FX(128), y |-> INT_TO_FX(120)],
                             !.hitbox = [half_w |-> SAMUS_HALF_W, half_h |-> SAMUS_HALF_H],
                             !.env = ENV_AIR],
   state |-> "FALLING", facing |-> DIR_RIGHT,
   hp |-> PLAYER_START_HP, hp_max |-> PLAYER_START_HP, alive |-> TRUE,
   invuln_timer |-> 0, shinespark_timer |-> 0, equipment |-> 0,
   anim |-> [frame_index |-> 0, frame_timer |-> 0]]

\* change_state leaving the hitbox as it is.
change_state_keeps_hitbox(p, new_state) ==
  [p EXCEPT !.state = new_state,
            !.anim.frame_index = 0,
            !.anim.frame_timer = 0]

change_state(p, new_state) ==
  [p EXCEPT !.state = new_state,
            !.anim.frame_index = 0,
            !.anim.frame_timer = 0,
            !.body.hitbox.half_h =
               IF new_state = "CROUCHING" THEN SAMUS_CROUCH_H
               ELSE IF new_state \in {"MORPHBALL", "SPRING_BALL"} THEN SAMUS_MORPH_H
               ELSE SAMUS_HALF_H]

\* player_damage starting an invulnerability window of a single frame.
player_damage_short_window(p, damage) ==
  IF ~p.alive THEN p
  ELSE IF p.invuln_timer > 0 THEN p
  ELSE LET p1 == [p EXCEPT !.hp = p.hp - damage, !.invuln_timer = 1]
       IN IF p1.hp <= 0
          THEN [change_state([p1 EXCEPT !.hp = 0, !.alive = FALSE], "DEATH")
                  EXCEPT !.anim.frame_timer = 120]
          ELSE change_state(p1, "DAMAGE")

player_damage(p, damage) ==
  IF ~p.alive THEN p
  ELSE IF p.invuln_timer > 0 THEN p
  ELSE LET p1 == [p EXCEPT !.hp = p.hp - damage, !.invuln_timer = INVULN_FRAMES]
       IN IF p1.hp <= 0
          THEN [change_state([p1 EXCEPT !.hp = 0, !.alive = FALSE], "DEATH")
                  EXCEPT !.anim.frame_timer = 120]
          ELSE change_state(p1, "DAMAGE")

player_damage_from(p, damage, source_x) ==
  IF ~p.alive THEN p
  ELSE IF p.invuln_timer > 0 THEN p
  ELSE LET kb_x == IF source_x < p.body.pos.x THEN KNOCKBACK_VEL_X ELSE -KNOCKBACK_VEL_X
       IN player_damage([p EXCEPT !.body.vel.x = kb_x,
                                  !.body.vel.y = -KNOCKBACK_VEL_Y], damage)

(***************************************************************************)
(* Player state machine (player.c, input.c)                                *)
(***************************************************************************)
\* One frame of pad state: the keys down and the keys newly down.
input_held(in, key) == key \in in.held

input_pressed(in, key) == key \in in.pressed

state_standing(p, in) ==
  IF input_held(in, "LEFT") \/ input_held(in, "RIGHT")
  THEN change_state([p EXCEPT !.body.vel.x = 0], "RUNNING")
  ELSE IF input_pressed(in, "B")
  THEN change_state([p EXCEPT !.body.vel.x = 0, !.body.vel.y = -JUMP_VEL_NORMAL], "JUMPING")
  ELSE IF input_held(in, "DOWN")
  THEN change_state([p EXCEPT !.body.vel.x = 0], "CROUCHING")
  ELSE [p EXCEPT !.body.vel.x = 0]

state_running(p, in) ==
  LET speed == IF input_held(in, "Y") THEN RUN_SPEED ELSE WALK_SPEED
      jump(q) == IF input_pressed(in, "B")
                 THEN change_state([q EXCEPT !.body.vel.y = -JUMP_VEL_SPIN], "SPIN_JUMPING")
                 ELSE q
  IN IF input_held(in, "LEFT")
     THEN jump([p EXCEPT !.facing = DIR_LEFT, !.body.vel.x = -speed])
     ELSE IF input_held(in, "RIGHT")
     THEN jump([p EXCEPT !.facing = DIR_RIGHT, !.body.vel.x = speed])
     ELSE change_state(p, "STANDING")

\* The air control shared by the jumping, spin-jumping and falling handlers.
state_falling(p, in) ==
  LET speed == IF input_held(in, "Y") THEN RUN_SPEED ELSE WALK_SPEED
  IN IF input_held(in, "LEFT")
     THEN [p EXCEPT !.facing = DIR_LEFT, !.body.vel.x = -speed]
     ELSE IF input_held(in, "RIGHT")
     THEN [p EXCEPT !.facing = DIR_RIGHT, !.body.vel.x = speed]
     ELSE p

state_jumping(p, in) ==
  LET cut(q) == IF ~input_held(in, "B") /\ q.body.vel.y < -INT_TO_FX(1)
                THEN [q EXCEPT !.body.vel.y = -INT_TO_FX(1)]
                ELSE q
  IN cut(state_falling(p, in))

state_spin_jumping(p, in) == state_jumping(p, in)

state_crouching(p, in) ==
  IF ~input_held(in, "DOWN")
  THEN change_state([p EXCEPT !.body.vel.x = 0], "STANDING")
  ELSE IF input_pressed(in, "B")
  THEN change_state([p EXCEPT !.body.vel.x = 0, !.body.vel.y = -JUMP_VEL_NORMAL], "JUMPING")
  ELSE IF input_pressed(in, "A") /\ (p.equipment \div EQUIP_MORPH_BALL) % 2 = 1
  THEN change_state([p EXCEPT !.body.vel.x = 0], "MORPHBALL")
  ELSE [p EXCEPT !.body.vel.x = 0]

state_morphball(p, in) ==
  LET uncurl(q) == IF input_pressed(in, "A") THEN change_state(q, "CROUCHING") ELSE q
  IN IF input_held(in, "LEFT")
     THEN uncurl([p EXCEPT !.facing = DIR_LEFT, !.body.vel.x = -MORPH_BALL_SPEED])
     ELSE IF input_held(in, "RIGHT")
     THEN uncurl([p EXCEPT !.facing = DIR_RIGHT, !.body.vel.x = MORPH_BALL_SPEED])
     ELSE uncurl([p EXCEPT !.body.vel.x = 0])

state_damage(p) ==
  IF p.invuln_timer > INVULN_FRAMES - KNOCKBACK_FRAMES THEN p
  ELSE change_state(p, "FALLING")

state_death(p) ==
  [p EXCEPT !.body.vel.x = 0, !.body.vel.y = 0,
            !.anim.frame_timer = IF @ > 0 THEN @ - 1 ELSE @]

\* The handler table filled by player_init; the remaining states are stubs.
state_fns(p, in) ==
  CASE p.state = "STANDING" -> state_standing(p, in)
    [] p.state = "RUNNING" -> state_running(p, in)
    [] p.state = "JUMPING" -> state_jumping(p, in)
    [] p.state = "SPIN_JUMPING" -> state_spin_jumping(p, in)
    [] p.state = "FALLING" -> state_falling(p, in)
    [] p.state = "CROUCHING" -> state_crouching(p, in)
    [] p.state = "MORPHBALL" -> state_morphball(p, in)
    [] p.state = "DAMAGE" -> state_damage(p)
    [] p.state = "DEATH" -> state_death(p)
    [] OTHER -> p

\* post_physics_check without the apex test.
post_physics_check_no_apex(p, in) ==
  IF p.body.contact.on_ground
  THEN IF p.state \in {"JUMPING", "SPIN_JUMPING", "FALLING"}
       THEN IF input_held(in, "LEFT") \/ input_held(in, "RIGHT")
            THEN change_state(p, "RUNNING")
            ELSE change_state(p, "STANDING")
       ELSE p
  ELSE IF p.state \in {"STANDING", "RUNNING", "CROUCHING"}
       THEN change_state(p, "FALLING")
       ELSE p

post_physics_check(p, in) ==
  LET apex(q) == IF /\ q.state \in {"JUMPING", "SPIN_JUMPING"}
                    /\ q.body.vel.y >= 0 /\ ~q.body.contact.on_ground
                 THEN change_state(q, "FALLING")
                 ELSE q
  IN IF p.body.contact.on_ground
     THEN IF p.state \in {"JUMPING", "SPIN_JUMPING", "FALLING"}
          THEN IF input_held(in, "LEFT") \/ input_held(in, "RIGHT")
               THEN apex(change_state(p, "RUNNING"))
               ELSE apex(change_state(p, "STANDING"))
          ELSE apex(p)
     ELSE IF p.state \in {"STANDING", "RUNNING", "CROUCHING"}
          THEN apex(change_state(p, "FALLING"))
          ELSE apex(p)

\* Steps 4 to 6 of player_update: hazard response, leaving lava, timers.
\* (Step 5 arms the crumble timer of the tile under the feet, which is not
\* part of the player and is left out.)
player_update_tail(p) ==
  LET timers(q) == [q EXCEPT !.invuln_timer = IF @ > 0 THEN @ - 1 ELSE @,
                             !.shinespark_timer = IF @ > 0 THEN @ - 1 ELSE @]
      leave_lava(q) == IF ~q.body.contact.on_hazard /\ q.body.env = ENV_LAVA
                       THEN [q EXCEPT !.body.env = ENV_AIR]
                       ELSE q
      hazard(q) ==
        IF q.body.contact.on_hazard /\ q.invuln_timer = 0
        THEN IF q.body.contact.hazard_type = COLL_HAZARD_SPIKE
             THEN player_damage([q EXCEPT !.body.vel.y = -KNOCKBACK_VEL_Y], 60)
             ELSE IF q.body.contact.hazard_type = COLL_HAZARD_LAVA
             THEN player_damage([q EXCEPT !.body.env = ENV_LAVA], 10)
             ELSE q
        ELSE q
  IN timers(leave_lava(hazard(p)))

\* player_update; the result carries the player and, for a living player,
\* the log <<state after the handler, state after post_physics_check,
\* ground contact and vertical velocity after post_physics_check, hitbox
\* half-height after the handler>>.
player_update(room, p, in) ==
  LET tail(handled, q) ==
        [player |-> player_update_tail(q),
         log |-> <<handled.state, q.state, q.body.contact.on_ground, q.body.vel.y,
                   handled.body.hitbox.half_h>>]
      physics(q) ==
        tail(q,
             post_physics_check([q EXCEPT !.body = physics_update_body(room, q.body)], in))
  IN IF ~p.alive THEN [player |-> p, log |-> <<>>]
     ELSE physics(state_fns(p, in))

\* Half-extent AABB overlap test shared by enemy.c, projectile.c and boss.c.
aabb_overlap(pos_a, box_a, pos_b, box_b) ==
  /\ Abs(pos_a.x - pos_b.x) < box_a.half_w + box_b.half_w
  /\ Abs(pos_a.y - pos_b.y) < box_a.half_h + box_b.half_h

(***************************************************************************)
(* Enemy pool (enemy.c)                                                    *)
(***************************************************************************)
EnemyDef(hp, damage, speed, hw, hh) ==
  [hp |-> hp, damage |-> damage, speed |-> speed,
   half_w |-> INT_TO_FX(hw), half_h |-> INT_TO_FX(hh)]

\* Indexed by type id + 1.
enemy_defs ==
  << [hp |-> 0, damage |-> 0, speed |-> 0, half_w |-> 0, half_h |-> 0],
     EnemyDef(20, 8, 32768, 6, 6),
     EnemyDef(60, 20, 49152, 6, 6),
     EnemyDef(40, 16, 65536, 6, 6),
     EnemyDef(1, 16, 98304, 4, 4),
     EnemyDef(200, 40, 98304, 8, 12),
     EnemyDef(600, 48, 65536, 8, 8),
     EnemyDef(400, 32, 65536, 6, 10) >>

ZeroEnemy ==
  [type |-> 0, body |-> ZeroBody, facing |-> 0, hp |-> 0, hp_max |-> 0,
   damage_contact |-> 0, ai_timer |-> 0, ai_state |-> 0,
   anim_frame |-> 0, anim_timer |-> 0, active |-> FALSE]

enemy_pool_init == [pool |-> [i \in 0..(MAX_ENEMIES - 1) |-> ZeroEnemy], count |-> 0]

ai_crawler(room, e) ==
  LET speed == enemy_defs[e.type + 1].speed
      walk(e1) == [e1 EXCEPT !.body = physics_update_body(room, e1.body)]
      wall_turn(e2) ==
        IF e2.body.contact.on_wall_right THEN [e2 EXCEPT !.facing = DIR_LEFT]
        ELSE IF e2.body.contact.on_wall_left THEN [e2 EXCEPT !.facing = DIR_RIGHT]
        ELSE e2
      edge_turn(e3) ==
        LET look_x == IF e3.facing = DIR_RIGHT
                      THEN FX_TO_INT(e3.body.pos.x + e3.body.hitbox.half_w + INT_TO_FX(1)) \div TILE_SIZE
                      ELSE FX_TO_INT(e3.body.pos.x - e3.body.hitbox.half_w - INT_TO_FX(1)) \div TILE_SIZE
            foot_y == FX_TO_INT(e3.body.pos.y + e3.body.hitbox.half_h) \div TILE_SIZE
        IN IF e3.body.contact.on_ground /\ room_get_collision(room, look_x, foot_y) # COLL_SOLID
           THEN [e3 EXCEPT !.facing = IF e3.facing = DIR_RIGHT THEN DIR_LEFT ELSE DIR_RIGHT]
           ELSE e3
  IN edge_turn(wall_turn(walk(
       [e EXCEPT !.body.vel.x = IF e.facing = DIR_RIGHT THEN speed ELSE -speed])))

ai_waver(room, e) ==
  LET def == enemy_defs[e.type + 1]
      timer == U16(e.ai_timer + 1)
      vx == IF e.facing = DIR_RIGHT THEN def.speed ELSE -def.speed
      vy == fx_sin(timer % 256) \div 2
      e1 == [e EXCEPT !.ai_timer = timer,
                      !.body.vel.x = vx, !.body.vel.y = vy,
                      !.body.pos.x = e.body.pos.x + vx,
                      !.body.pos.y = e.body.pos.y + vy]
      px == FX_TO_INT(e1.body.pos.x)
      room_w == room.width_tiles * TILE_SIZE
  IN IF px <= TILE_SIZE \/ px >= room_w - TILE_SIZE
     THEN [e1 EXCEPT !.facing = IF e1.facing = DIR_RIGHT THEN DIR_LEFT ELSE DIR_RIGHT]
     ELSE e1

ai_rinka(player, e) ==
  LET def == enemy_defs[e.type + 1]
      dx == player.body.pos.x - e.body.pos.x
      dy == player.body.pos.y - e.body.pos.y
      vx == IF dx > 0 THEN def.speed ELSE IF dx < 0 THEN -def.speed ELSE 0
      vy == IF dy > 0 THEN def.speed ELSE IF dy < 0 THEN -def.speed ELSE 0
      timer == U16(e.ai_timer + 1)
  IN [e EXCEPT !.body.vel.x = vx, !.body.vel.y = vy,
               !.body.pos.x = e.body.pos.x + vx,
               !.body.pos.y = e.body.pos.y + vy,
               !.ai_timer = timer,
               !.active = IF timer > 300 THEN FALSE ELSE e.active]

ai_sidehopper(room, player, e) ==
  LET speed == enemy_defs[e.type + 1].speed
      crouch(e1) ==
        IF e1.ai_timer > 60
        THEN [e1 EXCEPT !.ai_state = 1, !.ai_timer = 0,
                        !.body.vel.y = -(JUMP_VEL_NORMAL \div 2),
                        !.facing = IF player.body.pos.x > e1.body.pos.x
                                   THEN DIR_RIGHT ELSE DIR_LEFT,
                        !.body.vel.x = IF player.body.pos.x > e1.body.pos.x
                                       THEN speed ELSE -speed]
        ELSE e1
      land(e1) ==
        IF e1.body.contact.on_ground
        THEN [e1 EXCEPT !.ai_state = 0, !.ai_timer = 0, !.body.vel.x = 0]
        ELSE e1
  IN IF e.ai_state = 0 THEN
       crouch([e EXCEPT !.body = physics_update_body(room, [e.body EXCEPT !.vel.x = 0]),
                        !.ai_timer = U16(e.ai_timer + 1)])
     ELSE IF e.ai_state = 1 THEN
       land([e EXCEPT !.body = physics_update_body(room, e.body)])
     ELSE e

ai_stub(room, e) == [e EXCEPT !.body = physics_update_body(room, e.body)]

\* Dispatch table ai_fns.
ai_fns(room, player, e) ==
  IF e.type \in {ENEMY_ZOOMER, ENEMY_GEEMER} THEN ai_crawler(room, e)
  ELSE IF e.type = ENEMY_WAVER THEN ai_waver(room, e)
  ELSE IF e.type = ENEMY_RINKA THEN ai_rinka(player, e)
  ELSE IF e.type = ENEMY_SIDEHOPPER THEN ai_sidehopper(room, player, e)
  ELSE ai_stub(room, e)

enemy_spawn_accepts_none(pool, count, type, x, y) ==
  IF type >= ENEMY_TYPE_COUNT \/ type < 0
  THEN [pool |-> pool, count |-> count, ret |-> -1]
  ELSE IF count >= MAX_ENEMIES
  THEN [pool |-> pool, count |-> count, ret |-> -1]
  ELSE LET def == enemy_defs[type + 1]
           e == [ZeroEnemy EXCEPT !.type = type, !.active = TRUE,
                                  !.hp = def.hp, !.hp_max = def.hp,
                                  !.damage_contact = def.damage,
                                  !.facing = DIR_LEFT,
                                  !.body.pos = [x |-> x, y |-> y],
                                  !.body.hitbox = [half_w |-> def.half_w, half_h |-> def.half_h],
                                  !.body.env = ENV_AIR]
       IN [pool |-> [pool EXCEPT ![count] = e], count |-> count + 1, ret |-> count]

enemy_spawn(pool, count, type, x, y) ==
  IF type = ENEMY_NONE \/ type >= ENEMY_TYPE_COUNT \/ type < 0
  THEN [pool |-> pool, count |-> count, ret |-> -1]
  ELSE IF count >= MAX_ENEMIES
  THEN [pool |-> pool, count |-> count, ret |-> -1]
  ELSE LET def == enemy_defs[type + 1]
           e == [ZeroEnemy EXCEPT !.type = type, !.active = TRUE,
                                  !.hp = def.hp, !.hp_max = def.hp,
                                  !.damage_contact = def.damage,
                                  !.facing = DIR_LEFT,
                                  !.body.pos = [x |-> x, y |-> y],
                                  !.body.hitbox = [half_w |-> def.half_w, half_h |-> def.half_h],
                                  !.body.env = ENV_AIR]
       IN [pool |-> [pool EXCEPT ![count] = e], count |-> count + 1, ret |-> count]

enemy_remove_noswap(pool, count, index) ==
  IF index < 0 \/ index >= count THEN [pool |-> pool, count |-> count]
  ELSE [pool |-> [pool EXCEPT ![index] = ZeroEnemy], count |-> count - 1]

\* enemy_remove that swaps and clears but leaves active_count alone.
enemy_remove_keeps_count(pool, count, index) ==
  IF index < 0 \/ index >= count THEN [pool |-> pool, count |-> count]
  ELSE LET n == count - 1
           moved == IF index < n THEN [pool EXCEPT ![index] = pool[n]] ELSE pool
       IN [pool |-> [moved EXCEPT ![n] = ZeroEnemy], count |-> count]

enemy_remove(pool, count, index) ==
  IF index < 0 \/ index >= count THEN [pool |-> pool, count |-> count]
  ELSE LET n == count - 1
           moved == IF index < n THEN [pool EXCEPT ![index] = pool[n]] ELSE pool
       IN [pool |-> [moved EXCEPT ![n] = ZeroEnemy], count |-> n]

enemy_clear_all == [pool |-> [i \in 0..(MAX_ENEMIES - 1) |-> ZeroEnemy], count |-> 0]

enemy_aabb_overlap(e, target) ==
  aabb_overlap(e.body.pos, e.body.hitbox, target.pos, target.hitbox)

enemy_get_count(count) == count

\* enemy_damage that lowers hp without clearing active.
enemy_damage_keeps_active(pool, count, index, damage) ==
  IF index < 0 \/ index >= count THEN pool
  ELSE [pool EXCEPT ![index].hp = S16(pool[index].hp - damage)]

enemy_damage(pool, count, index, damage) ==
  IF index < 0 \/ index >= count THEN pool
  ELSE LET hp == S16(pool[index].hp - damage)
       IN [pool EXCEPT ![index].hp = hp,
                       ![index].active = IF hp <= 0 THEN FALSE ELSE @]

\* Loop body of enemy_update_all for slot i.  st carries the pool, the
\* active count, the player (contact damage) and two bookkeeping fields:
\* origin[s] is the slot the entity now in slot s occupied when the call
\* started, and log lists the origins of the entities whose AI has run.
enemy_update_one(room, st, i) ==
  LET e == st.pool[i]
  IN IF ~e.active
     THEN LET r == enemy_remove(st.pool, st.count, i)
              o == enemy_remove(st.origin, st.count, i)
          IN [st EXCEPT !.pool = r.pool, !.count = r.count, !.origin = o.pool]
     ELSE LET after_ai(e1) ==
                LET hit == /\ e1.active
                           /\ e1.damage_contact > 0
                           /\ st.player.alive
                           /\ st.player.invuln_timer = 0
                           /\ enemy_aabb_overlap(e1, st.player.body)
                    pl == IF hit
                          THEN player_damage_from(st.player, e1.damage_contact, e1.body.pos.x)
                          ELSE st.player
                    at == U16(e1.anim_timer + 1)
                    e2 == IF at >= 8
                          THEN [e1 EXCEPT !.anim_timer = 0, !.anim_frame = (e1.anim_frame + 1) % 4]
                          ELSE [e1 EXCEPT !.anim_timer = at]
                IN [st EXCEPT !.pool[i] = e2, !.player = pl,
                              !.log = Append(st.log, st.origin[i])]
          IN after_ai(ai_fns(room, st.player, e))

enemy_update_all_forward(room, pool, count, player) ==
  LET RECURSIVE Loop(_)
      Loop(st) == IF st.i >= st.count THEN st
                  ELSE Loop([enemy_update_one(room, st, st.i) EXCEPT !.i = st.i + 1])
  IN Loop([pool |-> pool, count |-> count, player |-> player,
           origin |-> [s \in 0..(MAX_ENEMIES - 1) |-> s], log |-> <<>>, i |-> 0])

enemy_update_all(room, pool, count, player) ==
  LET RECURSIVE Loop(_)
      Loop(st) == IF st.i < 0 THEN st
                  ELSE Loop([enemy_update_one(room, st, st.i) EXCEPT !.i = st.i - 1])
  IN Loop([pool |-> pool, count |-> count, player |-> player,
           origin |-> [s \in 0..(MAX_ENEMIES - 1) |-> s], log |-> <<>>,
           i |-> count - 1])

(***************************************************************************)
(* Projectile pool (projectile.c): definitions and pool management         *)
(***************************************************************************)
ProjTypeDef(damage, speed, lifetime, hw, hh, wall_pass, enemy_pass) ==
  [damage |-> damage, speed |-> INT_TO_FX(speed), lifetime |-> lifetime,
   half_w |-> INT_TO_FX(hw), half_h |-> INT_TO_FX(hh),
   wall_pass |-> wall_pass, enemy_pass |-> enemy_pass]

\* proj_defs with an enemy bullet of lifetime 0, which the update never
\* counts down.
proj_defs_bullet_unbounded ==
  << ProjTypeDef(0, 0, 0, 0, 0, FALSE, FALSE),
     ProjTypeDef(20, 4, 30, 4, 2, FALSE, FALSE),
     ProjTypeDef(30, 3, 30, 4, 2, FALSE, FALSE),
     ProjTypeDef(50, 4, 45, 4, 2, TRUE, FALSE),
     ProjTypeDef(40, 4, 30, 6, 4, FALSE, FALSE),
     ProjTypeDef(150, 4, 30, 4, 2, FALSE, TRUE),
     ProjTypeDef(100, 5, 60, 4, 2, FALSE, FALSE),
     ProjTypeDef(300, 5, 60, 4, 2, FALSE, FALSE),
     ProjTypeDef(30, 0, BOMB_TIMER_FRAMES, 8, 8, FALSE, FALSE),
     ProjTypeDef(200, 0, BOMB_TIMER_FRAMES, 32, 32, FALSE, FALSE),
     ProjTypeDef(10, 2, 0, 3, 3, FALSE, FALSE) >>

\* proj_defs with a wave beam that walls stop.
proj_defs_wave_blocked ==
  << ProjTypeDef(0, 0, 0, 0, 0, FALSE, FALSE),
     ProjTypeDef(20, 4, 30, 4, 2, FALSE, FALSE),
     ProjTypeDef(30, 3, 30, 4, 2, FALSE, FALSE),
     ProjTypeDef(50, 4, 45, 4, 2, FALSE, FALSE),
     ProjTypeDef(40, 4, 30, 6, 4, FALSE, FALSE),
     ProjTypeDef(150, 4, 30, 4, 2, FALSE, TRUE),
     ProjTypeDef(100, 5, 60, 4, 2, FALSE, FALSE),
     ProjTypeDef(300, 5, 60, 4, 2, FALSE, FALSE),
     ProjTypeDef(30, 0, BOMB_TIMER_FRAMES, 8, 8, FALSE, FALSE),
     ProjTypeDef(200, 0, BOMB_TIMER_FRAMES, 32, 32, FALSE, FALSE),
     ProjTypeDef(10, 2, 120, 3, 3, FALSE, FALSE) >>

\* Indexed by type id + 1.
proj_defs ==
  << ProjTypeDef(0, 0, 0, 0, 0, FALSE, FALSE),
     ProjTypeDef(20, 4, 30, 4, 2, FALSE, FALSE),
     ProjTypeDef(30, 3, 30, 4, 2, FALSE, FALSE),
     ProjTypeDef(50, 4, 45, 4, 2, TRUE, FALSE),
     ProjTypeDef(40, 4, 30, 6, 4, FALSE, FALSE),
     ProjTypeDef(150, 4, 30, 4, 2, FALSE, TRUE),
     ProjTypeDef(100, 5, 60, 4, 2, FALSE, FALSE),
     ProjTypeDef(300, 5, 60, 4, 2, FALSE, FALSE),
     ProjTypeDef(30, 0, BOMB_TIMER_FRAMES, 8, 8, FALSE, FALSE),
     ProjTypeDef(200, 0, BOMB_TIMER_FRAMES, 32, 32, FALSE, FALSE),
     ProjTypeDef(10, 2, 120, 3, 3, FALSE, FALSE) >>

tile_is_solid(coll) ==
  \/ coll = COLL_SOLID
  \/ (coll \div 16) * 16 = COLL_SPECIAL_BASE

ZeroProjectile ==
  [type |-> 0, owner |-> 0, pos |-> [x |-> 0, y |-> 0], vel |-> [x |-> 0, y |-> 0],
   hitbox |-> [half_w |-> 0, half_h |-> 0], damage |-> 0, lifetime |-> 0,
   timer |-> 0, active |-> FALSE]

projectile_pool_init ==
  [pool |-> [i \in 0..(MAX_PROJECTILES - 1) |-> ZeroProjectile], count |-> 0]

projectile_spawn_nocap(pool, count, type, owner, x, y, vx, vy) ==
  IF type = PROJ_NONE \/ type >= PROJ_TYPE_COUNT \/ type < 0
  THEN [pool |-> pool, count |-> count, ret |-> -1]
  ELSE LET p(def) ==
             [ZeroProjectile EXCEPT
                !.type = type, !.owner = owner, !.active = TRUE,
                !.damage = def.damage, !.lifetime = def.lifetime,
                !.hitbox = [half_w |-> def.half_w, half_h |-> def.half_h],
                !.pos = [x |-> x, y |-> y],
                !.vel = [x |-> vx, y |-> vy],
                !.timer = IF type \in {PROJ_BOMB, PROJ_POWER_BOMB}
                          THEN def.lifetime ELSE 0]
       IN [pool |-> IF count < MAX_PROJECTILES
                    THEN [pool EXCEPT ![count] = p(proj_defs[type + 1])] ELSE pool,
           count |-> count + 1, ret |-> count]

projectile_spawn(pool, count, type, owner, x, y, vx, vy) ==
  IF type = PROJ_NONE \/ type >= PROJ_TYPE_COUNT \/ type < 0
  THEN [pool |-> pool, count |-> count, ret |-> -1]
  ELSE IF count >= MAX_PROJECTILES
  THEN [pool |-> pool, count |-> count, ret |-> -1]
  ELSE LET p(def) ==
             [ZeroProjectile EXCEPT
                !.type = type, !.owner = owner, !.active = TRUE,
                !.damage = def.damage, !.lifetime = def.lifetime,
                !.hitbox = [half_w |-> def.half_w, half_h |-> def.half_h],
                !.pos = [x |-> x, y |-> y],
                !.vel = [x |-> vx, y |-> vy],
                !.timer = IF type \in {PROJ_BOMB, PROJ_POWER_BOMB}
                          THEN def.lifetime ELSE 0]
       IN [pool |-> [pool EXCEPT ![count] = p(proj_defs[type + 1])],
           count |-> count + 1, ret |-> count]

projectile_remove(pool, count, index) ==
  IF index < 0 \/ index >= count THEN [pool |-> pool, count |-> count]
  ELSE LET n == count - 1
           moved == IF index < n THEN [pool EXCEPT ![index] = pool[n]] ELSE pool
       IN [pool |-> [moved EXCEPT ![n] = ZeroProjectile], count |-> n]

projectile_clear_all ==
  [pool |-> [i \in 0..(MAX_PROJECTILES - 1) |-> ZeroProjectile], count |-> 0]

(***************************************************************************)
(* Boss framework (boss.c): type ids, AI state ids and tuning constants     *)
(***************************************************************************)
BOSS_NONE == 0
BOSS_SPORE_SPAWN == 1
BOSS_CROCOMIRE == 2
BOSS_BOMB_TORIZO == 3
BOSS_KRAID == 4
BOSS_BOTWOON == 5
BOSS_PHANTOON == 6
BOSS_DRAYGON == 7
BOSS_GOLDEN_TORIZO == 8
BOSS_RIDLEY == 9
BOSS_MOTHER_BRAIN == 10
BOSS_TYPE_COUNT == 11
BOSS_HIT_INVULN == 10
SS_SWING == 0
SS_DESCEND == 1
SS_OPEN == 2
SS_VULNERABLE == 3
SS_CLOSE == 4
SS_ASCEND == 5
SS_DEATH == 6
SS_HP == 960
SS_CONTACT_DAMAGE == 40
SS_HITBOX_HALF_W == 786432  \* INT_TO_FX(12)
SS_HITBOX_HALF_H == 1048576  \* INT_TO_FX(16)
SS_SWING_RADIUS == 3145728  \* INT_TO_FX(48)
SS_SWING_SPEED == 3
SS_SWING_FRAMES == 300
SS_DESCEND_SPEED == 65536  \* INT_TO_FX(1)
SS_DESCEND_DIST == 4194304  \* INT_TO_FX(64)
SS_ASCEND_SPEED == 65536  \* INT_TO_FX(1)
SS_OPEN_FRAMES == 30
SS_VULN_FRAMES == 120
SS_CLOSE_FRAMES == 30
SS_SPORE_INTERVAL == 45
SS_SPORE_SPEED == 131072  \* INT_TO_FX(2)
SS_DEATH_FRAMES == 60
CROC_ADVANCE == 0
CROC_SPIT == 1
CROC_FLINCH == 2
CROC_LUNGE == 3
CROC_FALLING == 4
CROC_DEATH == 5
CROC_HP_DUMMY == 9999
CROC_CONTACT_DAMAGE == 30
CROC_HITBOX_HALF_W == 1048576  \* INT_TO_FX(16)
CROC_HITBOX_HALF_H == 1310720  \* INT_TO_FX(20)
CROC_ADVANCE_SPEED == 16384
CROC_PUSH_PER_HIT == 524288  \* INT_TO_FX(8)
CROC_PUSH_THRESHOLD == 10485760  \* INT_TO_FX(160)
CROC_FLINCH_FRAMES == 20
CROC_SPIT_FRAMES == 40
CROC_SPIT_SPEED == 196608  \* INT_TO_FX(3)
CROC_LUNGE_SPEED == 196608  \* INT_TO_FX(3)
CROC_LUNGE_FRAMES == 15
CROC_ADVANCE_DURATION == 180
CROC_LUNGE_EVERY == 3
CROC_DEATH_FRAMES == 90
CROC_FALL_SPEED == 131072  \* INT_TO_FX(2)
CROC_FALL_FRAMES == 45
BT_STATUE == 0
BT_WAKE == 1
BT_IDLE == 2
BT_BOMB == 3
BT_LUNGE == 4
BT_FLINCH == 5
BT_DEATH == 6
BT_HP == 800
BT_CONTACT_DAMAGE == 20
BT_HITBOX_HALF_W == 786432  \* INT_TO_FX(12)
BT_HITBOX_HALF_H == 1310720  \* INT_TO_FX(20)
BT_WAKE_DIST == 5242880  \* INT_TO_FX(80)
BT_WAKE_FRAMES == 60
BT_IDLE_MIN == 30
BT_IDLE_RANGE == 60
BT_BOMB_VX == 131072  \* INT_TO_FX(2)
BT_BOMB_FRAMES == 30
BT_LUNGE_SPEED == 131072  \* INT_TO_FX(2)
BT_LUNGE_FRAMES == 20
BT_FLINCH_FRAMES == 10
BT_DEATH_FRAMES == 60
BT_LUNGE_EVERY == 2
KRAID_RISE == 0
KRAID_IDLE == 1
KRAID_ROAR == 2
KRAID_FINGERNAILS == 3
KRAID_BELLY_SPIKE == 4
KRAID_FLINCH == 5
KRAID_DEATH == 6
KRAID_HP == 1000
KRAID_CONTACT_DAMAGE == 40
KRAID_HITBOX_HALF_W == 1310720  \* INT_TO_FX(20)
KRAID_HITBOX_HALF_H == 1572864  \* INT_TO_FX(24)
KRAID_RISE_SPEED == 65536  \* INT_TO_FX(1)
KRAID_RISE_OFFSET == 3145728  \* INT_TO_FX(48)
KRAID_IDLE_MIN == 60
KRAID_IDLE_RANGE == 60
KRAID_ROAR_FRAMES == 90
KRAID_FLINCH_FRAMES == 15
KRAID_NAIL_FRAMES == 30
KRAID_SPIKE_FRAMES == 30
KRAID_NAIL_SPEED == 196608  \* INT_TO_FX(3)
KRAID_SPIKE_VX == 65536  \* INT_TO_FX(1)
KRAID_ROAR_EVERY == 3
KRAID_DEATH_FRAMES == 90
BOT_HIDDEN == 0
BOT_EMERGE == 1
BOT_SPIT == 2
BOT_RETREAT == 3
BOT_SNAKE == 4
BOT_DEATH == 5
BOT_HP == 3000
BOT_CONTACT_DAMAGE == 30
BOT_HITBOX_HALF_W == 655360  \* INT_TO_FX(10)
BOT_HITBOX_HALF_H == 655360  \* INT_TO_FX(10)
BOT_HIDDEN_FRAMES == 45
BOT_EMERGE_FRAMES == 20
BOT_SPIT_FRAMES == 30
BOT_RETREAT_FRAMES == 15
BOT_SPIT_SPEED == 196608  \* INT_TO_FX(3)
BOT_SNAKE_SPEED == 131072  \* INT_TO_FX(2)
BOT_SNAKE_AMPLITUDE == 2621440  \* INT_TO_FX(40)
BOT_SNAKE_FREQ == 4
BOT_SNAKE_FRAMES == 180
BOT_EMERGE_PER_CYCLE == 4
BOT_DEATH_FRAMES == 60
PH_INVISIBLE == 0
PH_FADE_IN == 1
PH_VISIBLE == 2
PH_FADE_OUT == 3
PH_RAGE == 4
PH_DEATH == 5
PH_HP == 2500
PH_CONTACT_DAMAGE == 30
PH_HITBOX_HALF_W == 1048576  \* INT_TO_FX(16)
PH_HITBOX_HALF_H == 1048576  \* INT_TO_FX(16)
PH_INVIS_FRAMES == 90
PH_FADE_FRAMES == 20
PH_VISIBLE_FRAMES == 120
PH_RAGE_FRAMES == 180
PH_FLAME_INTERVAL == 30
PH_RAGE_FLAME_INTERVAL == 15
PH_FLAME_SPEED == 131072  \* INT_TO_FX(2)
PH_RAGE_FLAME_SPEED == 196608  \* INT_TO_FX(3)
PH_FLOAT_SPEED == 3
PH_FLOAT_AMPLITUDE == 1310720  \* INT_TO_FX(20)
PH_HOVER_SPEED == 32768
PH_DEATH_FRAMES == 60
PH_FLAMES_PER_CYCLE == 4
PH_RAGE_FLAMES == 8
DY_SWIM == 0
DY_SWOOP == 1
DY_GRAB == 2
DY_SPIT == 3
DY_RETREAT == 4
DY_DEATH == 5
DY_HP == 6000
DY_CONTACT_DAMAGE == 40
DY_HITBOX_HALF_W == 1179648  \* INT_TO_FX(18)
DY_HITBOX_HALF_H == 917504  \* INT_TO_FX(14)
DY_SWIM_SPEED == 65536  \* INT_TO_FX(1)
DY_SWIM_RANGE == 5242880  \* INT_TO_FX(80)
DY_SWIM_ATTACK_EVERY == 120
DY_SWOOP_SPEED == 196608  \* INT_TO_FX(3)
DY_SWOOP_FRAMES == 25
DY_GRAB_FRAMES == 90
DY_GRAB_DAMAGE == 2
DY_SPIT_FRAMES == 30
DY_SPIT_SPEED == 131072  \* INT_TO_FX(2)
DY_RETREAT_SPEED == 131072  \* INT_TO_FX(2)
DY_DEATH_FRAMES == 90
GT_IDLE == 0
GT_ATTACK_ENERGY == 1
GT_ATTACK_LUNGE == 2
GT_CATCH == 3
GT_THROW_BACK == 4
GT_FLINCH == 5
GT_DEATH == 6
GT_HP == 8000
GT_CONTACT_DAMAGE == 50
GT_HITBOX_HALF_W == 917504  \* INT_TO_FX(14)
GT_HITBOX_HALF_H == 1441792  \* INT_TO_FX(22)
GT_IDLE_MIN == 20
GT_IDLE_RANGE == 40
GT_ENERGY_VX == 196608  \* INT_TO_FX(3)
GT_ENERGY_FRAMES == 25
GT_LUNGE_SPEED == 196608  \* INT_TO_FX(3)
GT_LUNGE_FRAMES == 18
GT_CATCH_FRAMES == 20
GT_THROW_SPEED == 262144  \* INT_TO_FX(4)
GT_THROW_FRAMES == 15
GT_FLINCH_FRAMES == 8
GT_DEATH_FRAMES == 60
GT_LUNGE_EVERY == 2
RI_FLY == 0
RI_TAIL == 1
RI_FIREBALL == 2
RI_GRAB == 3
RI_POGO == 4
RI_DEATH == 5
RI_HP == 18000
RI_CONTACT_DAMAGE == 60
RI_HITBOX_HALF_W == 1048576  \* INT_TO_FX(16)
RI_HITBOX_HALF_H == 1179648  \* INT_TO_FX(18)
RI_FLY_SPEED == 131072  \* INT_TO_FX(2)
RI_FLY_RANGE == 4587520  \* INT_TO_FX(70)
RI_ATTACK_INTERVAL == 90
RI_TAIL_FRAMES == 20
RI_FIREBALL_SPEED == 196608  \* INT_TO_FX(3)
RI_FIREBALL_FRAMES == 25
RI_GRAB_FRAMES == 60
RI_GRAB_DAMAGE == 3
RI_POGO_SPEED == 262144  \* INT_TO_FX(4)
RI_POGO_FRAMES == 30
RI_DEATH_FRAMES == 120
MB_TANK_IDLE == 0
MB_TANK_ATTACK == 1
MB_TANK_BREAK == 2
MB_STAND_IDLE == 3
MB_STAND_BEAM == 4
MB_STAND_BOMB == 5
MB_HYPER_SETUP == 6
MB_HYPER_BEAM == 7
MB_DEATH == 8
MB_HP_PHASE1 == 3000
MB_HP_PHASE2 == 18000
MB_HP_PHASE3 == 36000
MB_CONTACT_DAMAGE == 20
MB_HITBOX_HALF_W == 1048576  \* INT_TO_FX(16)
MB_HITBOX_HALF_H == 1048576  \* INT_TO_FX(16)
MB_RINKA_SPEED == 131072  \* INT_TO_FX(2)
MB_RINKA_INTERVAL == 60
MB_BEAM_SPEED == 262144  \* INT_TO_FX(4)
MB_BEAM_FRAMES == 30
MB_BOMB_VY == 131072  \* INT_TO_FX(2)
MB_BOMB_FRAMES == 25
MB_BREAK_FRAMES == 90
MB_HYPER_SETUP_FRAMES == 120
MB_IDLE_FRAMES == 60
MB_DEATH_FRAMES == 180
BT_BOMB_VY == -196608  \* -INT_TO_FX(3)
KRAID_SPIKE_VY == -262144  \* -INT_TO_FX(4)
GT_ENERGY_VY == -131072  \* -INT_TO_FX(2)

ZeroBoss ==
  [type |-> 0, body |-> ZeroBody, hp |-> 0, hp_max |-> 0, phase |-> 0,
   ai_state |-> 0, ai_timer |-> 0, ai_counter |-> 0, damage_contact |-> 0,
   active |-> FALSE, vulnerable |-> FALSE, invuln_timer |-> 0,
   anchor_x |-> 0, anchor_y |-> 0, param_a |-> 0, param_b |-> 0,
   sub_timer |-> 0, attack_count |-> 0]

boss_init == ZeroBoss

boss_aabb_overlap(pos_a, box_a, pos_b, box_b) ==
  aabb_overlap(pos_a, box_a, pos_b, box_b)

\* The world a boss update reads and writes: the boss slot, the projectile
\* pool (bullets), the player (contact damage) and the camera (shake).
World(boss, pp, pc, player, camera) ==
  [boss |-> boss, pp |-> pp, pc |-> pc, player |-> player, camera |-> camera]

\* Variant of boss_invuln_tick that counts down two frames per update.
boss_invuln_tick_twice(w) ==
  IF w.boss.invuln_timer > 1
  THEN [w EXCEPT !.boss.invuln_timer = w.boss.invuln_timer - 2]
  ELSE [w EXCEPT !.boss.invuln_timer = 0]

\* "if (b->invuln_timer > 0) b->invuln_timer--;" at the top of every update.
boss_invuln_tick(w) ==
  IF w.boss.invuln_timer > 0
  THEN [w EXCEPT !.boss.invuln_timer = w.boss.invuln_timer - 1]
  ELSE w

\* projectile_spawn(PROJ_ENEMY_BULLET, PROJ_OWNER_ENEMY, x, y, vx, vy)
boss_fire(w, x, y, vx, vy) ==
  LET store(r) == [w EXCEPT !.pp = r.pool, !.pc = r.count]
  IN store(projectile_spawn(w.pp, w.pc, PROJ_ENEMY_BULLET, PROJ_OWNER_ENEMY,
                            x, y, vx, vy))

\* Contact damage block at the end of every update.
boss_contact(w, enabled) ==
  IF /\ w.boss.active
     /\ enabled
     /\ boss_aabb_overlap(w.boss.body.pos, w.boss.body.hitbox,
                          w.player.body.pos, w.player.body.hitbox)
  THEN [w EXCEPT !.player = player_damage(w.player, w.boss.damage_contact)]
  ELSE w

boss_shake(w, frames, magnitude) ==
  [w EXCEPT !.camera = camera_shake(w.camera, frames, magnitude)]

(***************************************************************************)
(* Spore Spawn                                                             *)
(***************************************************************************)
\* spore_spawn_init leaving the core open.
spore_spawn_init_open(b) ==
  [b EXCEPT !.hp = SS_HP, !.hp_max = SS_HP,
            !.damage_contact = SS_CONTACT_DAMAGE,
            !.body.hitbox = [half_w |-> SS_HITBOX_HALF_W, half_h |-> SS_HITBOX_HALF_H],
            !.vulnerable = TRUE, !.ai_state = SS_SWING, !.ai_timer = 0,
            !.ai_counter = 0, !.param_a = 0, !.sub_timer = 0,
            !.anchor_x = b.body.pos.x, !.anchor_y = b.body.pos.y]

spore_spawn_init(b) ==
  [b EXCEPT !.hp = SS_HP, !.hp_max = SS_HP,
            !.damage_contact = SS_CONTACT_DAMAGE,
            !.body.hitbox = [half_w |-> SS_HITBOX_HALF_W, half_h |-> SS_HITBOX_HALF_H],
            !.vulnerable = FALSE, !.ai_state = SS_SWING, !.ai_timer = 0,
            !.ai_counter = 0, !.param_a = 0, !.sub_timer = 0,
            !.anchor_x = b.body.pos.x, !.anchor_y = b.body.pos.y]

spore_spawn_update(w0) ==
  LET w == boss_invuln_tick(w0)
      b == w.boss
      t == U16(b.ai_timer + 1)
      w1 ==
        CASE b.ai_state = SS_SWING ->
               LET pa == b.param_a + INT_TO_FX(SS_SWING_SPEED)
                   angle == U8(FX_TO_INT(pa))
                   offset_x == fx_mul(fx_sin(angle), SS_SWING_RADIUS)
               IN IF t >= SS_SWING_FRAMES
                  THEN [w EXCEPT !.boss.param_a = pa, !.boss.body.pos.y = b.anchor_y,
                                 !.boss.ai_state = SS_DESCEND, !.boss.ai_timer = 0,
                                 !.boss.body.pos.x = b.anchor_x]
                  ELSE [w EXCEPT !.boss.param_a = pa, !.boss.ai_timer = t,
                                 !.boss.body.pos.x = b.anchor_x + offset_x,
                                 !.boss.body.pos.y = b.anchor_y]
          [] b.ai_state = SS_DESCEND ->
               LET y == b.body.pos.y + SS_DESCEND_SPEED
                   target_y == b.anchor_y + SS_DESCEND_DIST
               IN IF y >= target_y
                  THEN [w EXCEPT !.boss.body.pos.y = target_y,
                                 !.boss.ai_state = SS_OPEN, !.boss.ai_timer = 0]
                  ELSE [w EXCEPT !.boss.body.pos.y = y]
          [] b.ai_state = SS_OPEN ->
               IF t >= SS_OPEN_FRAMES
               THEN [w EXCEPT !.boss.ai_state = SS_VULNERABLE, !.boss.ai_timer = 0,
                              !.boss.vulnerable = TRUE, !.boss.sub_timer = 0]
               ELSE [w EXCEPT !.boss.ai_timer = t]
          [] b.ai_state = SS_VULNERABLE ->
               LET st == U16(b.sub_timer + 1)
                   dx == w.player.body.pos.x - b.body.pos.x
                   dy == w.player.body.pos.y - b.body.pos.y
                   vx == IF dx > 0 THEN SS_SPORE_SPEED ELSE -SS_SPORE_SPEED
                   vy == IF dy > 0 THEN SS_SPORE_SPEED \div 2 ELSE -(SS_SPORE_SPEED \div 2)
                   wa == IF st >= SS_SPORE_INTERVAL
                         THEN boss_fire([w EXCEPT !.boss.ai_timer = t, !.boss.sub_timer = 0],
                                        b.body.pos.x, b.body.pos.y, vx, vy)
                         ELSE [w EXCEPT !.boss.ai_timer = t, !.boss.sub_timer = st]
               IN IF t >= SS_VULN_FRAMES
                  THEN [wa EXCEPT !.boss.ai_state = SS_CLOSE, !.boss.ai_timer = 0,
                                  !.boss.vulnerable = FALSE]
                  ELSE wa
          [] b.ai_state = SS_CLOSE ->
               IF t >= SS_CLOSE_FRAMES
               THEN [w EXCEPT !.boss.ai_state = SS_ASCEND, !.boss.ai_timer = 0]
               ELSE [w EXCEPT !.boss.ai_timer = t]
          [] b.ai_state = SS_ASCEND ->
               LET y == b.body.pos.y - SS_ASCEND_SPEED
               IN IF y <= b.anchor_y
                  THEN [w EXCEPT !.boss.body.pos.y = b.anchor_y,
                                 !.boss.ai_state = SS_SWING, !.boss.ai_timer = 0,
                                 !.boss.param_a = 0]
                  ELSE [w EXCEPT !.boss.body.pos.y = y]
          [] b.ai_state = SS_DEATH ->
               [w EXCEPT !.boss.ai_timer = t,
                         !.boss.active = IF t >= SS_DEATH_FRAMES THEN FALSE ELSE @]
          [] OTHER -> w
      contact(wc) == boss_contact(wc, wc.boss.ai_state # SS_DEATH)
  IN contact(w1)

(***************************************************************************)
(* Crocomire                                                               *)
(***************************************************************************)
crocomire_init(b) ==
  [b EXCEPT !.hp = CROC_HP_DUMMY, !.hp_max = CROC_HP_DUMMY,
            !.damage_contact = CROC_CONTACT_DAMAGE,
            !.body.hitbox = [half_w |-> CROC_HITBOX_HALF_W, half_h |-> CROC_HITBOX_HALF_H],
            !.vulnerable = TRUE, !.ai_state = CROC_ADVANCE, !.ai_timer = 0,
            !.ai_counter = 0, !.sub_timer = 0, !.attack_count = 0,
            !.anchor_x = b.body.pos.x + CROC_PUSH_THRESHOLD,
            !.anchor_y = b.body.pos.y]

crocomire_update(w0) ==
  LET w == boss_invuln_tick(w0)
      b == w.boss
      t == U16(b.ai_timer + 1)
      dx == w.player.body.pos.x - b.body.pos.x
      dy == w.player.body.pos.y - b.body.pos.y
      w1 ==
        CASE b.ai_state = CROC_ADVANCE ->
               LET wa == [w EXCEPT !.boss.body.pos.x =
                                      IF dx < 0 THEN @ - CROC_ADVANCE_SPEED
                                      ELSE @ + CROC_ADVANCE_SPEED]
               IN IF t >= CROC_ADVANCE_DURATION
                  THEN IF b.attack_count >= CROC_LUNGE_EVERY
                       THEN [wa EXCEPT !.boss.ai_state = CROC_LUNGE,
                                       !.boss.attack_count = 0, !.boss.ai_timer = 0]
                       ELSE [wa EXCEPT !.boss.ai_state = CROC_SPIT, !.boss.ai_timer = 0]
                  ELSE [wa EXCEPT !.boss.ai_timer = t]
          [] b.ai_state = CROC_SPIT ->
               LET vx == IF dx > 0 THEN CROC_SPIT_SPEED ELSE -CROC_SPIT_SPEED
                   vy == IF dy > 0 THEN CROC_SPIT_SPEED \div 4 ELSE -(CROC_SPIT_SPEED \div 4)
                   wa == IF b.ai_timer = 0
                         THEN [boss_fire(w, b.body.pos.x, b.body.pos.y, vx, vy)
                                 EXCEPT !.boss.attack_count = U16(@ + 1)]
                         ELSE w
               IN IF t >= CROC_SPIT_FRAMES
                  THEN [wa EXCEPT !.boss.ai_state = CROC_ADVANCE, !.boss.ai_timer = 0]
                  ELSE [wa EXCEPT !.boss.ai_timer = t]
          [] b.ai_state = CROC_FLINCH ->
               IF t >= CROC_FLINCH_FRAMES
               THEN [w EXCEPT !.boss.ai_state = CROC_ADVANCE, !.boss.ai_timer = 0]
               ELSE [w EXCEPT !.boss.ai_timer = t]
          [] b.ai_state = CROC_LUNGE ->
               LET wa == [w EXCEPT !.boss.body.pos.x =
                                      IF dx < 0 THEN @ - CROC_LUNGE_SPEED
                                      ELSE @ + CROC_LUNGE_SPEED]
               IN IF t >= CROC_LUNGE_FRAMES
                  THEN [wa EXCEPT !.boss.ai_state = CROC_ADVANCE, !.boss.ai_timer = 0]
                  ELSE [wa EXCEPT !.boss.ai_timer = t]
          [] b.ai_state = CROC_FALLING ->
               LET wa == [w EXCEPT !.boss.body.pos.y = @ + CROC_FALL_SPEED]
               IN IF t >= CROC_FALL_FRAMES
                  THEN [wa EXCEPT !.boss.ai_state = CROC_DEATH, !.boss.ai_timer = 0]
                  ELSE [wa EXCEPT !.boss.ai_timer = t]
          [] b.ai_state = CROC_DEATH ->
               [w EXCEPT !.boss.ai_timer = t,
                         !.boss.active = IF t >= CROC_DEATH_FRAMES THEN FALSE ELSE @]
          [] OTHER -> w
      contact(wc) == boss_contact(wc, wc.boss.ai_state # CROC_FALLING /\ wc.boss.ai_state # CROC_DEATH)
  IN contact(w1)

(***************************************************************************)
(* Bomb Torizo                                                             *)
(***************************************************************************)
bomb_torizo_init(b) ==
  [b EXCEPT !.hp = BT_HP, !.hp_max = BT_HP,
            !.damage_contact = BT_CONTACT_DAMAGE,
            !.body.hitbox = [half_w |-> BT_HITBOX_HALF_W, half_h |-> BT_HITBOX_HALF_H],
            !.vulnerable = FALSE, !.ai_state = BT_STATUE, !.ai_timer = 0,
            !.ai_counter = 0, !.sub_timer = 0, !.attack_count = 0,
            !.param_a = b.body.pos.x]

bomb_torizo_update(w0) ==
  LET w == boss_invuln_tick(w0)
      b == w.boss
      t == U16(b.ai_timer + 1)
      dx == w.player.body.pos.x - b.body.pos.x
      dy == w.player.body.pos.y - b.body.pos.y
      idle(c) == BT_IDLE_MIN + (c % BT_IDLE_RANGE)
      w1 ==
        CASE b.ai_state = BT_STATUE ->
               IF Abs(dx) < BT_WAKE_DIST /\ Abs(dy) < BT_WAKE_DIST
               THEN boss_shake([w EXCEPT !.boss.ai_state = BT_WAKE, !.boss.ai_timer = 0], 15, 2)
               ELSE w
          [] b.ai_state = BT_WAKE ->
               IF t >= BT_WAKE_FRAMES
               THEN [w EXCEPT !.boss.ai_state = BT_IDLE, !.boss.ai_timer = 0,
                              !.boss.vulnerable = TRUE,
                              !.boss.sub_timer = idle(b.ai_counter)]
               ELSE [w EXCEPT !.boss.ai_timer = t]
          [] b.ai_state = BT_IDLE ->
               IF t >= b.sub_timer
               THEN IF b.attack_count >= BT_LUNGE_EVERY
                    THEN [w EXCEPT !.boss.ai_state = BT_LUNGE, !.boss.attack_count = 0,
                                   !.boss.ai_timer = 0]
                    ELSE [w EXCEPT !.boss.ai_state = BT_BOMB, !.boss.ai_timer = 0]
               ELSE [w EXCEPT !.boss.ai_timer = t]
          [] b.ai_state = BT_BOMB ->
               LET vx == IF dx > 0 THEN BT_BOMB_VX ELSE -BT_BOMB_VX
                   wa == IF b.ai_timer = 0
                         THEN [boss_fire(w, b.body.pos.x, b.body.pos.y - INT_TO_FX(8),
                                         vx, BT_BOMB_VY)
                                 EXCEPT !.boss.attack_count = U16(@ + 1),
                                        !.boss.ai_counter = U16(@ + 1)]
                         ELSE w
               IN IF t >= BT_BOMB_FRAMES
                  THEN [wa EXCEPT !.boss.ai_state = BT_IDLE, !.boss.ai_timer = 0,
                                  !.boss.sub_timer = idle(wa.boss.ai_counter)]
                  ELSE [wa EXCEPT !.boss.ai_timer = t]
          [] b.ai_state = BT_LUNGE ->
               LET wa == [w EXCEPT !.boss.body.pos.x =
                                      IF dx < 0 THEN @ - BT_LUNGE_SPEED
                                      ELSE @ + BT_LUNGE_SPEED]
               IN IF t >= BT_LUNGE_FRAMES
                  THEN [wa EXCEPT !.boss.ai_state = BT_IDLE, !.boss.ai_timer = 0,
                                  !.boss.sub_timer = idle(b.ai_counter)]
                  ELSE [wa EXCEPT !.boss.ai_timer = t]
          [] b.ai_state = BT_FLINCH ->
               IF t >= BT_FLINCH_FRAMES
               THEN [w EXCEPT !.boss.ai_state = BT_IDLE, !.boss.ai_timer = 0,
                              !.boss.sub_timer = idle(b.ai_counter)]
               ELSE [w EXCEPT !.boss.ai_timer = t]
          [] b.ai_state = BT_DEATH ->
               [w EXCEPT !.boss.ai_timer = t,
                         !.boss.active = IF t >= BT_DEATH_FRAMES THEN FALSE ELSE @]
          [] OTHER -> w
      contact(wc) == boss_contact(wc, wc.boss.ai_state # BT_STATUE /\ wc.boss.ai_state # BT_DEATH)
  IN contact(w1)

(***************************************************************************)
(* Kraid                                                                   *)
(***************************************************************************)
kraid_init(b) ==
  [b EXCEPT !.hp = KRAID_HP, !.hp_max = KRAID_HP,
            !.damage_contact = KRAID_CONTACT_DAMAGE,
            !.body.hitbox = [half_w |-> KRAID_HITBOX_HALF_W, half_h |-> KRAID_HITBOX_HALF_H],
            !.vulnerable = FALSE, !.ai_state = KRAID_RISE, !.ai_timer = 0,
            !.ai_counter = 0, !.sub_timer = 0, !.attack_count = 0,
            !.param_a = b.body.pos.y,
            !.body.pos.y = b.body.pos.y + KRAID_RISE_OFFSET]

kraid_update(w0) ==
  LET w == boss_invuln_tick(w0)
      b == w.boss
      t == U16(b.ai_timer + 1)
      dx == w.player.body.pos.x - b.body.pos.x
      idle(c) == KRAID_IDLE_MIN + (c % KRAID_IDLE_RANGE)
      w1 ==
        CASE b.ai_state = KRAID_RISE ->
               LET y == b.body.pos.y - KRAID_RISE_SPEED
               IN IF y <= b.param_a
                  THEN boss_shake([w EXCEPT !.boss.body.pos.y = b.param_a,
                                            !.boss.ai_state = KRAID_IDLE,
                                            !.boss.ai_timer = 0,
                                            !.boss.sub_timer = KRAID_IDLE_MIN], 20, 3)
                  ELSE [w EXCEPT !.boss.body.pos.y = y]
          [] b.ai_state = KRAID_IDLE ->
               IF t >= b.sub_timer
               THEN IF b.attack_count >= KRAID_ROAR_EVERY
                    THEN [w EXCEPT !.boss.ai_state = KRAID_ROAR, !.boss.ai_timer = 0,
                                   !.boss.vulnerable = TRUE, !.boss.attack_count = 0]
                    ELSE [w EXCEPT !.boss.ai_state =
                                      IF b.ai_counter % 2 = 0 THEN KRAID_FINGERNAILS
                                      ELSE KRAID_BELLY_SPIKE,
                                   !.boss.ai_timer = 0]
               ELSE [w EXCEPT !.boss.ai_timer = t]
          [] b.ai_state = KRAID_ROAR ->
               IF t >= KRAID_ROAR_FRAMES
               THEN [w EXCEPT !.boss.ai_state = KRAID_IDLE, !.boss.ai_timer = 0,
                              !.boss.vulnerable = FALSE,
                              !.boss.sub_timer = idle(b.ai_counter)]
               ELSE [w EXCEPT !.boss.ai_timer = t]
          [] b.ai_state = KRAID_FINGERNAILS ->
               LET base_vx == IF dx > 0 THEN KRAID_NAIL_SPEED ELSE -KRAID_NAIL_SPEED
                   f1 == boss_fire(w, b.body.pos.x, b.body.pos.y - INT_TO_FX(16),
                                   base_vx, -(KRAID_NAIL_SPEED \div 4))
                   f2 == boss_fire(f1, b.body.pos.x, b.body.pos.y, base_vx, 0)
                   f3 == boss_fire(f2, b.body.pos.x, b.body.pos.y + INT_TO_FX(16),
                                   base_vx, KRAID_NAIL_SPEED \div 4)
                   wa == IF b.ai_timer = 0
                         THEN [f3 EXCEPT !.boss.attack_count = U16(@ + 1),
                                         !.boss.ai_counter = U16(@ + 1)]
                         ELSE w
               IN IF t >= KRAID_NAIL_FRAMES
                  THEN [wa EXCEPT !.boss.ai_state = KRAID_IDLE, !.boss.ai_timer = 0,
                                  !.boss.sub_timer = idle(wa.boss.ai_counter)]
                  ELSE [wa EXCEPT !.boss.ai_timer = t]
          [] b.ai_state = KRAID_BELLY_SPIKE ->
               LET spike_vx == IF dx > 0 THEN KRAID_SPIKE_VX ELSE -KRAID_SPIKE_VX
                   f1 == boss_fire(w, b.body.pos.x, b.body.pos.y + INT_TO_FX(8),
                                   spike_vx, KRAID_SPIKE_VY)
                   f2 == boss_fire(f1, b.body.pos.x, b.body.pos.y + INT_TO_FX(8),
                                   spike_vx + (spike_vx \div 2), KRAID_SPIKE_VY)
                   wa == IF b.ai_timer = 0
                         THEN [f2 EXCEPT !.boss.attack_count = U16(@ + 1),
                                         !.boss.ai_counter = U16(@ + 1)]
                         ELSE w
               IN IF t >= KRAID_SPIKE_FRAMES
                  THEN [wa EXCEPT !.boss.ai_state = KRAID_IDLE, !.boss.ai_timer = 0,
                                  !.boss.sub_timer = idle(wa.boss.ai_counter)]
                  ELSE [wa EXCEPT !.boss.ai_timer = t]
          [] b.ai_state = KRAID_FLINCH ->
               IF t >= KRAID_FLINCH_FRAMES
               THEN [w EXCEPT !.boss.ai_state = KRAID_IDLE, !.boss.ai_timer = 0,
                              !.boss.vulnerable = FALSE,
                              !.boss.sub_timer = KRAID_IDLE_MIN]
               ELSE [w EXCEPT !.boss.ai_timer = t]
          [] b.ai_state = KRAID_DEATH ->
               [w EXCEPT !.boss.body.pos.y = @ + KRAID_RISE_SPEED,
                         !.boss.ai_timer = t,
                         !.boss.active = IF t >= KRAID_DEATH_FRAMES THEN FALSE ELSE @]
          [] OTHER -> w
      contact(wc) == boss_contact(wc, wc.boss.ai_state # KRAID_RISE /\ wc.boss.ai_state # KRAID_DEATH)
  IN contact(w1)

(***************************************************************************)
(* Botwoon                                                                 *)
(***************************************************************************)
bot_hole_offsets == << <<-60, -30>>, <<60, -30>>, <<-60, 30>>, <<60, 30>> >>

botwoon_init(b) ==
  [b EXCEPT !.hp = BOT_HP, !.hp_max = BOT_HP,
            !.damage_contact = BOT_CONTACT_DAMAGE,
            !.body.hitbox = [half_w |-> BOT_HITBOX_HALF_W, half_h |-> BOT_HITBOX_HALF_H],
            !.vulnerable = FALSE, !.ai_state = BOT_HIDDEN, !.ai_timer = 0,
            !.ai_counter = 0, !.sub_timer = 0, !.attack_count = 0,
            !.param_a = 0, !.param_b = 0,
            !.anchor_x = b.body.pos.x, !.anchor_y = b.body.pos.y]

botwoon_update(w0) ==
  LET w == boss_invuln_tick(w0)
      b == w.boss
      t == U16(b.ai_timer + 1)
      dx == w.player.body.pos.x - b.body.pos.x
      dy == w.player.body.pos.y - b.body.pos.y
      w1 ==
        CASE b.ai_state = BOT_HIDDEN ->
               IF t >= BOT_HIDDEN_FRAMES
               THEN LET hole == b.ai_counter % 4
                    IN [w EXCEPT !.boss.param_b = INT_TO_FX(hole),
                                 !.boss.body.pos.x =
                                    b.anchor_x + INT_TO_FX(bot_hole_offsets[hole + 1][1]),
                                 !.boss.body.pos.y =
                                    b.anchor_y + INT_TO_FX(bot_hole_offsets[hole + 1][2]),
                                 !.boss.ai_state = BOT_EMERGE, !.boss.ai_timer = 0]
               ELSE [w EXCEPT !.boss.ai_timer = t]
          [] b.ai_state = BOT_EMERGE ->
               IF t >= BOT_EMERGE_FRAMES
               THEN [w EXCEPT !.boss.ai_state = BOT_SPIT, !.boss.ai_timer = 0,
                              !.boss.vulnerable = TRUE]
               ELSE [w EXCEPT !.boss.ai_timer = t]
          [] b.ai_state = BOT_SPIT ->
               LET vx == IF dx > 0 THEN BOT_SPIT_SPEED ELSE -BOT_SPIT_SPEED
                   vy == IF dy > 0 THEN BOT_SPIT_SPEED \div 2 ELSE -(BOT_SPIT_SPEED \div 2)
                   wa == IF b.ai_timer = 0
                         THEN boss_fire(w, b.body.pos.x, b.body.pos.y, vx, vy)
                         ELSE w
               IN IF t >= BOT_SPIT_FRAMES
                  THEN [wa EXCEPT !.boss.ai_state = BOT_RETREAT, !.boss.ai_timer = 0,
                                  !.boss.vulnerable = FALSE,
                                  !.boss.sub_timer = U16(@ + 1),
                                  !.boss.ai_counter = U16(@ + 1)]
                  ELSE [wa EXCEPT !.boss.ai_timer = t]
          [] b.ai_state = BOT_RETREAT ->
               IF t >= BOT_RETREAT_FRAMES
               THEN IF b.sub_timer >= BOT_EMERGE_PER_CYCLE
                    THEN [w EXCEPT !.boss.ai_state = BOT_SNAKE, !.boss.ai_timer = 0,
                                   !.boss.param_a = 0, !.boss.sub_timer = 0,
                                   !.boss.vulnerable = TRUE]
                    ELSE [w EXCEPT !.boss.ai_state = BOT_HIDDEN, !.boss.ai_timer = 0]
               ELSE [w EXCEPT !.boss.ai_timer = t]
          [] b.ai_state = BOT_SNAKE ->
               LET pa == b.param_a + INT_TO_FX(BOT_SNAKE_FREQ)
                   angle == U8(FX_TO_INT(pa))
                   progress == fx_div(INT_TO_FX(b.ai_timer), INT_TO_FX(BOT_SNAKE_FRAMES))
                   sweep_x == IF b.ai_timer < BOT_SNAKE_FRAMES \div 2
                              THEN b.anchor_x - INT_TO_FX(60)
                                   + fx_mul(INT_TO_FX(120), progress * 2)
                              ELSE b.anchor_x - INT_TO_FX(60)
                                   + fx_mul(INT_TO_FX(120),
                                            FX_ONE - ((progress - FX_HALF) * 2))
                   wa == [w EXCEPT !.boss.param_a = pa,
                                   !.boss.body.pos.x = sweep_x,
                                   !.boss.body.pos.y =
                                      b.anchor_y + fx_mul(fx_sin(angle), BOT_SNAKE_AMPLITUDE)]
               IN IF t >= BOT_SNAKE_FRAMES
                  THEN [wa EXCEPT !.boss.ai_state = BOT_HIDDEN, !.boss.ai_timer = 0,
                                  !.boss.vulnerable = FALSE]
                  ELSE [wa EXCEPT !.boss.ai_timer = t]
          [] b.ai_state = BOT_DEATH ->
               [w EXCEPT !.boss.ai_timer = t,
                         !.boss.active = IF t >= BOT_DEATH_FRAMES THEN FALSE ELSE @]
          [] OTHER -> w
      contact(wc) == boss_contact(wc, wc.boss.ai_state # BOT_HIDDEN /\ wc.boss.ai_state # BOT_DEATH)
  IN contact(w1)

(***************************************************************************)
(* Phantoon                                                                *)
(***************************************************************************)
phantoon_init(b) ==
  [b EXCEPT !.hp = PH_HP, !.hp_max = PH_HP,
            !.damage_contact = PH_CONTACT_DAMAGE,
            !.body.hitbox = [half_w |-> PH_HITBOX_HALF_W, half_h |-> PH_HITBOX_HALF_H],
            !.vulnerable = FALSE, !.ai_state = PH_INVISIBLE, !.ai_timer = 0,
            !.ai_counter = 0, !.sub_timer = 0, !.attack_count = 0,
            !.param_a = 0, !.param_b = 0,
            !.anchor_x = b.body.pos.x, !.anchor_y = b.body.pos.y]

phantoon_update(w0) ==
  LET wi == boss_invuln_tick(w0)
      bi == wi.boss
      hdx == wi.player.body.pos.x - bi.body.pos.x
      hpa == bi.param_a + INT_TO_FX(PH_FLOAT_SPEED)
      w == IF bi.ai_state = PH_VISIBLE \/ bi.ai_state = PH_RAGE
           THEN [wi EXCEPT !.boss.param_a = hpa,
                           !.boss.body.pos.y =
                              bi.anchor_y
                              + fx_mul(fx_sin(U8(FX_TO_INT(hpa))), PH_FLOAT_AMPLITUDE),
                           !.boss.body.pos.x =
                              IF hdx > 0 THEN @ + PH_HOVER_SPEED
                              ELSE IF hdx < 0 THEN @ - PH_HOVER_SPEED ELSE @]
           ELSE wi
      b == w.boss
      t == U16(b.ai_timer + 1)
      st == U16(b.sub_timer + 1)
      dx == w.player.body.pos.x - b.body.pos.x
      dy == w.player.body.pos.y - b.body.pos.y
      w1 ==
        CASE b.ai_state = PH_INVISIBLE ->
               IF t >= PH_INVIS_FRAMES
               THEN [w EXCEPT !.boss.ai_state = PH_FADE_IN, !.boss.ai_timer = 0,
                              !.boss.body.pos.x = w.player.body.pos.x + INT_TO_FX(40),
                              !.boss.body.pos.y = w.player.body.pos.y - INT_TO_FX(32),
                              !.boss.anchor_y = w.player.body.pos.y - INT_TO_FX(32)]
               ELSE [w EXCEPT !.boss.ai_timer = t]
          [] b.ai_state = PH_FADE_IN ->
               IF t >= PH_FADE_FRAMES
               THEN [w EXCEPT !.boss.ai_state =
                                 IF b.param_b # 0 THEN PH_RAGE ELSE PH_VISIBLE,
                              !.boss.ai_timer = 0, !.boss.vulnerable = TRUE,
                              !.boss.sub_timer = 0, !.boss.attack_count = 0,
                              !.boss.param_a = 0]
               ELSE [w EXCEPT !.boss.ai_timer = t]
          [] b.ai_state = PH_VISIBLE ->
               LET vx == IF dx > 0 THEN PH_FLAME_SPEED ELSE -PH_FLAME_SPEED
                   vy == IF dy > 0 THEN PH_FLAME_SPEED \div 2 ELSE -(PH_FLAME_SPEED \div 2)
                   wt == [w EXCEPT !.boss.ai_timer = t, !.boss.sub_timer = st]
                   wa == IF st >= PH_FLAME_INTERVAL /\ b.attack_count < PH_FLAMES_PER_CYCLE
                         THEN boss_fire([wt EXCEPT !.boss.sub_timer = 0,
                                                   !.boss.attack_count = U16(@ + 1)],
                                        b.body.pos.x, b.body.pos.y, vx, vy)
                         ELSE wt
               IN IF t >= PH_VISIBLE_FRAMES
                  THEN [wa EXCEPT !.boss.ai_state = PH_FADE_OUT, !.boss.ai_timer = 0,
                                  !.boss.vulnerable = FALSE]
                  ELSE wa
          [] b.ai_state = PH_FADE_OUT ->
               IF t >= PH_FADE_FRAMES
               THEN [w EXCEPT !.boss.ai_state = PH_INVISIBLE, !.boss.ai_timer = 0]
               ELSE [w EXCEPT !.boss.ai_timer = t]
          [] b.ai_state = PH_RAGE ->
               LET vx == IF dx > 0 THEN PH_RAGE_FLAME_SPEED ELSE -PH_RAGE_FLAME_SPEED
                   wt == [w EXCEPT !.boss.ai_timer = t, !.boss.sub_timer = st]
                   wa == IF st >= PH_RAGE_FLAME_INTERVAL /\ b.attack_count < PH_RAGE_FLAMES
                         THEN boss_fire(
                                boss_fire([wt EXCEPT !.boss.sub_timer = 0,
                                                     !.boss.attack_count = U16(@ + 1)],
                                          b.body.pos.x, b.body.pos.y,
                                          vx, -(PH_RAGE_FLAME_SPEED \div 2)),
                                b.body.pos.x, b.body.pos.y,
                                vx, PH_RAGE_FLAME_SPEED \div 2)
                         ELSE wt
               IN IF t >= PH_RAGE_FRAMES
                  THEN [wa EXCEPT !.boss.ai_state = PH_FADE_OUT, !.boss.ai_timer = 0,
                                  !.boss.vulnerable = FALSE]
                  ELSE wa
          [] b.ai_state = PH_DEATH ->
               [w EXCEPT !.boss.ai_timer = t,
                         !.boss.active = IF t >= PH_DEATH_FRAMES THEN FALSE ELSE @]
          [] OTHER -> w
      contact(wc) == boss_contact(wc, wc.boss.ai_state = PH_VISIBLE \/ wc.boss.ai_state = PH_RAGE)
  IN contact(w1)

(***************************************************************************)
(* Draygon                                                                 *)
(***************************************************************************)
draygon_init(b) ==
  [b EXCEPT !.hp = DY_HP, !.hp_max = DY_HP,
            !.damage_contact = DY_CONTACT_DAMAGE,
            !.body.hitbox = [half_w |-> DY_HITBOX_HALF_W, half_h |-> DY_HITBOX_HALF_H],
            !.vulnerable = TRUE, !.ai_state = DY_SWIM, !.ai_timer = 0,
            !.param_a = FX_ONE, !.param_b = 0, !.sub_timer = 0, !.attack_count = 0,
            !.anchor_x = b.body.pos.x, !.anchor_y = b.body.pos.y]

draygon_update(w0) ==
  LET w == boss_invuln_tick(w0)
      b == w.boss
      t == U16(b.ai_timer + 1)
      dx == w.player.body.pos.x - b.body.pos.x
      dy == w.player.body.pos.y - b.body.pos.y
      w1 ==
        CASE b.ai_state = DY_SWIM ->
               LET x == IF b.param_a > 0 THEN b.body.pos.x + DY_SWIM_SPEED
                        ELSE b.body.pos.x - DY_SWIM_SPEED
                   pa == IF b.param_a > 0
                         THEN (IF x > b.anchor_x + DY_SWIM_RANGE THEN -FX_ONE ELSE b.param_a)
                         ELSE (IF x < b.anchor_x - DY_SWIM_RANGE THEN FX_ONE ELSE b.param_a)
                   wa == [w EXCEPT !.boss.body.pos.x = x, !.boss.param_a = pa]
               IN IF t >= DY_SWIM_ATTACK_EVERY
                  THEN [wa EXCEPT !.boss.ai_timer = 0,
                                  !.boss.ai_state =
                                     IF b.sub_timer % 2 = 0 THEN DY_SWOOP ELSE DY_SPIT,
                                  !.boss.sub_timer = U16(@ + 1)]
                  ELSE [wa EXCEPT !.boss.ai_timer = t]
          [] b.ai_state = DY_SWOOP ->
               LET wa == [w EXCEPT !.boss.body.pos.x =
                                      IF dx > 0 THEN @ + DY_SWOOP_SPEED
                                      ELSE IF dx < 0 THEN @ - DY_SWOOP_SPEED ELSE @,
                                   !.boss.body.pos.y =
                                      IF dy > 0 THEN @ + DY_SWOOP_SPEED
                                      ELSE IF dy < 0 THEN @ - DY_SWOOP_SPEED ELSE @]
               IN IF Abs(dx) < INT_TO_FX(16) /\ Abs(dy) < INT_TO_FX(16)
                  THEN [wa EXCEPT !.boss.ai_state = DY_GRAB, !.boss.ai_timer = 0,
                                  !.boss.param_b = 0,
                                  !.boss.attack_count = U16(@ + 1)]
                  ELSE IF t >= DY_SWOOP_FRAMES
                  THEN [wa EXCEPT !.boss.ai_state = DY_RETREAT, !.boss.ai_timer = 0]
                  ELSE [wa EXCEPT !.boss.ai_timer = t]
          [] b.ai_state = DY_GRAB ->
               LET pb == b.param_b + FX_ONE
                   wa == [w EXCEPT !.boss.param_b = pb]
               IN IF FX_TO_INT(pb) < DY_GRAB_FRAMES
                  THEN IF FX_TO_INT(pb) % 15 = 0
                       THEN [wa EXCEPT !.player = player_damage(w.player, DY_GRAB_DAMAGE)]
                       ELSE wa
                  ELSE [wa EXCEPT !.boss.ai_state = DY_RETREAT, !.boss.ai_timer = 0]
          [] b.ai_state = DY_SPIT ->
               LET vx == IF dx > 0 THEN DY_SPIT_SPEED ELSE -DY_SPIT_SPEED
                   wa == IF b.ai_timer = 0
                         THEN boss_fire(boss_fire(w, b.body.pos.x, b.body.pos.y,
                                                  vx, DY_SPIT_SPEED \div 2),
                                        b.body.pos.x, b.body.pos.y,
                                        vx, -(DY_SPIT_SPEED \div 2))
                         ELSE w
               IN IF t >= DY_SPIT_FRAMES
                  THEN [wa EXCEPT !.boss.ai_state = DY_SWIM, !.boss.ai_timer = 0]
                  ELSE [wa EXCEPT !.boss.ai_timer = t]
          [] b.ai_state = DY_RETREAT ->
               LET ry == b.anchor_y - b.body.pos.y
               IN IF ry > INT_TO_FX(2)
                  THEN [w EXCEPT !.boss.body.pos.y = @ + DY_RETREAT_SPEED]
                  ELSE IF ry < -INT_TO_FX(2)
                  THEN [w EXCEPT !.boss.body.pos.y = @ - DY_RETREAT_SPEED]
                  ELSE [w EXCEPT !.boss.body.pos.y = b.anchor_y,
                                 !.boss.ai_state = DY_SWIM, !.boss.ai_timer = 0]
          [] b.ai_state = DY_DEATH ->
               [w EXCEPT !.boss.body.pos.y = @ + FX_ONE,
                         !.boss.ai_timer = t,
                         !.boss.active = IF t >= DY_DEATH_FRAMES THEN FALSE ELSE @]
          [] OTHER -> w
      contact(wc) == boss_contact(wc, wc.boss.ai_state # DY_DEATH)
  IN contact(w1)

(***************************************************************************)
(* Golden Torizo                                                           *)
(***************************************************************************)
golden_torizo_init(b) ==
  [b EXCEPT !.hp = GT_HP, !.hp_max = GT_HP,
            !.damage_contact = GT_CONTACT_DAMAGE,
            !.body.hitbox = [half_w |-> GT_HITBOX_HALF_W, half_h |-> GT_HITBOX_HALF_H],
            !.vulnerable = TRUE, !.ai_state = GT_IDLE, !.ai_timer = 0,
            !.ai_counter = 0, !.sub_timer = GT_IDLE_MIN, !.attack_count = 0,
            !.param_a = b.body.pos.x, !.param_b = 0]

golden_torizo_update(w0) ==
  LET w == boss_invuln_tick(w0)
      b == w.boss
      t == U16(b.ai_timer + 1)
      dx == w.player.body.pos.x - b.body.pos.x
      idle(c) == GT_IDLE_MIN + (c % GT_IDLE_RANGE)
      w1 ==
        CASE b.ai_state = GT_IDLE ->
               IF t >= b.sub_timer
               THEN IF b.attack_count >= GT_LUNGE_EVERY
                    THEN [w EXCEPT !.boss.ai_state = GT_ATTACK_LUNGE,
                                   !.boss.attack_count = 0, !.boss.ai_timer = 0]
                    ELSE [w EXCEPT !.boss.ai_state = GT_ATTACK_ENERGY, !.boss.ai_timer = 0]
               ELSE [w EXCEPT !.boss.ai_timer = t]
          [] b.ai_state = GT_ATTACK_ENERGY ->
               LET vx == IF dx > 0 THEN GT_ENERGY_VX ELSE -GT_ENERGY_VX
                   wa == IF b.ai_timer = 0
                         THEN [boss_fire(w, b.body.pos.x, b.body.pos.y - INT_TO_FX(8),
                                         vx, GT_ENERGY_VY)
                                 EXCEPT !.boss.attack_count = U16(@ + 1),
                                        !.boss.ai_counter = U16(@ + 1)]
                         ELSE w
               IN IF t >= GT_ENERGY_FRAMES
                  THEN [wa EXCEPT !.boss.ai_state = GT_IDLE, !.boss.ai_timer = 0,
                                  !.boss.sub_timer = idle(wa.boss.ai_counter)]
                  ELSE [wa EXCEPT !.boss.ai_timer = t]
          [] b.ai_state = GT_ATTACK_LUNGE ->
               LET wa == [w EXCEPT !.boss.body.pos.x =
                                      IF dx < 0 THEN @ - GT_LUNGE_SPEED
                                      ELSE @ + GT_LUNGE_SPEED]
                   c == U16(b.ai_counter + 1)
               IN IF t >= GT_LUNGE_FRAMES
                  THEN [wa EXCEPT !.boss.ai_state = GT_IDLE, !.boss.ai_timer = 0,
                                  !.boss.ai_counter = c,
                                  !.boss.sub_timer = idle(c)]
                  ELSE [wa EXCEPT !.boss.ai_timer = t]
          [] b.ai_state = GT_CATCH ->
               IF t >= GT_CATCH_FRAMES
               THEN [w EXCEPT !.boss.ai_state = GT_THROW_BACK, !.boss.ai_timer = 0]
               ELSE [w EXCEPT !.boss.ai_timer = t]
          [] b.ai_state = GT_THROW_BACK ->
               LET vx == IF dx > 0 THEN GT_THROW_SPEED ELSE -GT_THROW_SPEED
                   wa == IF b.ai_timer = 0
                         THEN boss_fire(w, b.body.pos.x, b.body.pos.y, vx, 0)
                         ELSE w
               IN IF t >= GT_THROW_FRAMES
                  THEN [wa EXCEPT !.boss.ai_state = GT_IDLE, !.boss.ai_timer = 0,
                                  !.boss.param_b = 0, !.boss.sub_timer = GT_IDLE_MIN]
                  ELSE [wa EXCEPT !.boss.ai_timer = t]
          [] b.ai_state = GT_FLINCH ->
               IF t >= GT_FLINCH_FRAMES
               THEN [w EXCEPT !.boss.ai_state = GT_IDLE, !.boss.ai_timer = 0,
                              !.boss.sub_timer = idle(b.ai_counter)]
               ELSE [w EXCEPT !.boss.ai_timer = t]
          [] b.ai_state = GT_DEATH ->
               [w EXCEPT !.boss.ai_timer = t,
                         !.boss.active = IF t >= GT_DEATH_FRAMES THEN FALSE ELSE @]
          [] OTHER -> w
      contact(wc) == boss_contact(wc, wc.boss.ai_state # GT_DEATH)
  IN contact(w1)

\* C integer division (truncation toward zero).
CDiv(a, b) ==
  LET q == Abs(a) \div Abs(b)
  IN IF (a < 0) = (b < 0) THEN q ELSE -q

(***************************************************************************)
(* Ridley                                                                  *)
(***************************************************************************)
ridley_init(b) ==
  [b EXCEPT !.hp = RI_HP, !.hp_max = RI_HP,
            !.damage_contact = RI_CONTACT_DAMAGE,
            !.body.hitbox = [half_w |-> RI_HITBOX_HALF_W, half_h |-> RI_HITBOX_HALF_H],
            !.vulnerable = TRUE, !.ai_state = RI_FLY, !.ai_timer = 0,
            !.ai_counter = 0, !.sub_timer = 0, !.attack_count = 0,
            !.param_a = FX_ONE,
            !.anchor_x = b.body.pos.x, !.anchor_y = b.body.pos.y]

\* ridley_attack_interval without the aggression factor.
ridley_attack_interval_flat(b) == RI_ATTACK_INTERVAL

ridley_attack_interval(b) ==
  LET ratio == CDiv(b.hp * 100, b.hp_max)
  IN IF ratio > 75 THEN RI_ATTACK_INTERVAL
     ELSE IF ratio > 50 THEN (RI_ATTACK_INTERVAL * 3) \div 4
     ELSE IF ratio > 25 THEN (RI_ATTACK_INTERVAL * 3) \div 5
     ELSE RI_ATTACK_INTERVAL \div 3

ridley_update(w0) ==
  LET w == boss_invuln_tick(w0)
      b == w.boss
      t == U16(b.ai_timer + 1)
      dx == w.player.body.pos.x - b.body.pos.x
      dy == w.player.body.pos.y - b.body.pos.y
      w1 ==
        CASE b.ai_state = RI_FLY ->
               LET x == IF b.param_a > 0 THEN b.body.pos.x + RI_FLY_SPEED
                        ELSE b.body.pos.x - RI_FLY_SPEED
                   pa == IF b.param_a > 0
                         THEN (IF x > b.anchor_x + RI_FLY_RANGE THEN -FX_ONE ELSE b.param_a)
                         ELSE (IF x < b.anchor_x - RI_FLY_RANGE THEN FX_ONE ELSE b.param_a)
                   st == U16(b.sub_timer + 1)
                   bob == U8(st * 2)
                   wa == [w EXCEPT !.boss.body.pos.x = x, !.boss.param_a = pa,
                                   !.boss.sub_timer = st,
                                   !.boss.body.pos.y =
                                      b.anchor_y + fx_mul(fx_sin(bob), INT_TO_FX(12))]
                   attack == b.ai_counter % 4
               IN IF t >= ridley_attack_interval(b)
                  THEN [wa EXCEPT !.boss.ai_timer = 0,
                                  !.boss.ai_state =
                                     IF attack = 0 THEN RI_TAIL
                                     ELSE IF attack = 1 THEN RI_FIREBALL
                                     ELSE IF attack = 2 THEN RI_GRAB
                                     ELSE RI_POGO,
                                  !.boss.ai_counter = U16(@ + 1)]
                  ELSE [wa EXCEPT !.boss.ai_timer = t]
          [] b.ai_state = RI_TAIL ->
               LET wa == [w EXCEPT !.boss.body.pos.x =
                                      IF dx < 0 THEN @ - RI_FLY_SPEED * 2
                                      ELSE @ + RI_FLY_SPEED * 2]
               IN IF t >= RI_TAIL_FRAMES
                  THEN [wa EXCEPT !.boss.ai_state = RI_FLY, !.boss.ai_timer = 0]
                  ELSE [wa EXCEPT !.boss.ai_timer = t]
          [] b.ai_state = RI_FIREBALL ->
               LET base_vx == IF dx > 0 THEN RI_FIREBALL_SPEED ELSE -RI_FIREBALL_SPEED
                   f1 == boss_fire(w, b.body.pos.x, b.body.pos.y, base_vx, INT_TO_FX(-1))
                   f2 == boss_fire(f1, b.body.pos.x, b.body.pos.y, base_vx, INT_TO_FX(0))
                   f3 == boss_fire(f2, b.body.pos.x, b.body.pos.y, base_vx, INT_TO_FX(1))
                   wa == IF b.ai_timer = 0
                         THEN (IF b.hp < CDiv(b.hp_max, 2) THEN f3 ELSE f1)
                         ELSE w
               IN IF t >= RI_FIREBALL_FRAMES
                  THEN [wa EXCEPT !.boss.ai_state = RI_FLY, !.boss.ai_timer = 0]
                  ELSE [wa EXCEPT !.boss.ai_timer = t]
          [] b.ai_state = RI_GRAB ->
               LET chase == [w EXCEPT !.boss.body.pos.x =
                                         IF dx > 0 THEN @ + RI_FLY_SPEED * 2
                                         ELSE IF dx < 0 THEN @ - RI_FLY_SPEED * 2 ELSE @,
                                      !.boss.body.pos.y =
                                         IF dy > 0 THEN @ + RI_FLY_SPEED
                                         ELSE IF dy < 0 THEN @ - RI_FLY_SPEED ELSE @]
                   wa == IF b.ai_timer < RI_GRAB_FRAMES \div 2
                         THEN (IF Abs(dx) < INT_TO_FX(12) /\ Abs(dy) < INT_TO_FX(12)
                               THEN [chase EXCEPT !.player =
                                                    player_damage(w.player, RI_GRAB_DAMAGE)]
                               ELSE chase)
                         ELSE w
               IN IF t >= RI_GRAB_FRAMES
                  THEN [wa EXCEPT !.boss.ai_state = RI_FLY, !.boss.ai_timer = 0]
                  ELSE [wa EXCEPT !.boss.ai_timer = t]
          [] b.ai_state = RI_POGO ->
               LET y == IF t > RI_POGO_FRAMES \div 2
                        THEN b.body.pos.y
                        ELSE b.body.pos.y + RI_POGO_SPEED
                   wa == [w EXCEPT !.boss.body.pos.y = y]
                   wb == IF t = RI_POGO_FRAMES \div 2 THEN boss_shake(wa, 5, 2) ELSE wa
               IN IF t >= RI_POGO_FRAMES
                  THEN [wb EXCEPT !.boss.ai_state = RI_FLY, !.boss.ai_timer = 0]
                  ELSE [wb EXCEPT !.boss.ai_timer = t]
          [] b.ai_state = RI_DEATH ->
               LET wa == IF b.ai_timer % 10 = 0 THEN boss_shake(w, 5, 3) ELSE w
               IN [wa EXCEPT !.boss.ai_timer = t,
                             !.boss.active = IF t >= RI_DEATH_FRAMES THEN FALSE ELSE @]
          [] OTHER -> w
      contact(wc) == boss_contact(wc, wc.boss.ai_state # RI_DEATH)
  IN contact(w1)

(***************************************************************************)
(* Mother Brain                                                            *)
(***************************************************************************)
mother_brain_init(b) ==
  [b EXCEPT !.hp = S16(MB_HP_PHASE1), !.hp_max = S16(MB_HP_PHASE1),
            !.damage_contact = MB_CONTACT_DAMAGE,
            !.body.hitbox = [half_w |-> MB_HITBOX_HALF_W, half_h |-> MB_HITBOX_HALF_H],
            !.vulnerable = TRUE, !.phase = 0, !.ai_state = MB_TANK_IDLE,
            !.ai_timer = 0, !.ai_counter = 0, !.sub_timer = 0, !.attack_count = 0]

mother_brain_update(w0) ==
  LET w == boss_invuln_tick(w0)
      b == w.boss
      t == U16(b.ai_timer + 1)
      st == U16(b.sub_timer + 1)
      dx == w.player.body.pos.x - b.body.pos.x
      w1 ==
        CASE b.ai_state = MB_TANK_IDLE ->
               IF t >= MB_IDLE_FRAMES
               THEN [w EXCEPT !.boss.ai_state = MB_TANK_ATTACK, !.boss.ai_timer = 0]
               ELSE [w EXCEPT !.boss.ai_timer = t]
          [] b.ai_state = MB_TANK_ATTACK ->
               LET vx == IF dx > 0 THEN MB_RINKA_SPEED ELSE -MB_RINKA_SPEED
                   wa == IF st >= MB_RINKA_INTERVAL
                         THEN [boss_fire([w EXCEPT !.boss.sub_timer = 0],
                                         b.body.pos.x, b.body.pos.y, vx, 0)
                                 EXCEPT !.boss.attack_count = U16(@ + 1)]
                         ELSE [w EXCEPT !.boss.sub_timer = st]
               IN IF t >= MB_IDLE_FRAMES * 3
                  THEN [wa EXCEPT !.boss.ai_state = MB_TANK_IDLE, !.boss.ai_timer = 0]
                  ELSE [wa EXCEPT !.boss.ai_timer = t]
          [] b.ai_state = MB_TANK_BREAK ->
               LET wa == IF t % 15 = 0 THEN boss_shake(w, 10, 3) ELSE w
               IN IF t >= MB_BREAK_FRAMES
                  THEN boss_shake([wa EXCEPT !.boss.phase = 1,
                                             !.boss.hp = S16(MB_HP_PHASE2),
                                             !.boss.hp_max = S16(MB_HP_PHASE2),
                                             !.boss.ai_state = MB_STAND_IDLE,
                                             !.boss.ai_timer = 0, !.boss.sub_timer = 0,
                                             !.boss.attack_count = 0,
                                             !.boss.vulnerable = TRUE], 30, 5)
                  ELSE [wa EXCEPT !.boss.ai_timer = t]
          [] b.ai_state = MB_STAND_IDLE ->
               IF t >= MB_IDLE_FRAMES
               THEN [w EXCEPT !.boss.ai_state =
                                 IF b.ai_counter % 2 = 0 THEN MB_STAND_BEAM ELSE MB_STAND_BOMB,
                              !.boss.ai_timer = 0,
                              !.boss.ai_counter = U16(@ + 1)]
               ELSE [w EXCEPT !.boss.ai_timer = t]
          [] b.ai_state = MB_STAND_BEAM ->
               LET vx == IF dx > 0 THEN MB_BEAM_SPEED ELSE -MB_BEAM_SPEED
                   f1 == boss_fire(w, b.body.pos.x, b.body.pos.y, vx, -(MB_BEAM_SPEED \div 2))
                   f2 == boss_fire(f1, b.body.pos.x, b.body.pos.y, vx, 0)
                   f3 == boss_fire(f2, b.body.pos.x, b.body.pos.y, vx, MB_BEAM_SPEED \div 2)
                   wa == IF b.ai_timer = 0 THEN f3 ELSE w
               IN IF t >= MB_BEAM_FRAMES
                  THEN [wa EXCEPT !.boss.ai_state = MB_STAND_IDLE, !.boss.ai_timer = 0]
                  ELSE [wa EXCEPT !.boss.ai_timer = t]
          [] b.ai_state = MB_STAND_BOMB ->
               LET f1 == boss_fire(w, b.body.pos.x - INT_TO_FX(16), b.body.pos.y,
                                   0, MB_BOMB_VY)
                   f2 == boss_fire(f1, b.body.pos.x + INT_TO_FX(16), b.body.pos.y,
                                   0, MB_BOMB_VY)
                   wa == IF b.ai_timer = 0 THEN f2 ELSE w
               IN IF t >= MB_BOMB_FRAMES
                  THEN [wa EXCEPT !.boss.ai_state = MB_STAND_IDLE, !.boss.ai_timer = 0]
                  ELSE [wa EXCEPT !.boss.ai_timer = t]
          [] b.ai_state = MB_HYPER_SETUP ->
               LET wa == IF t % 20 = 0 THEN boss_shake(w, 5, 2) ELSE w
               IN IF t >= MB_HYPER_SETUP_FRAMES
                  THEN [wa EXCEPT !.boss.phase = 2,
                                  !.boss.hp = S16(MB_HP_PHASE3),
                                  !.boss.hp_max = S16(MB_HP_PHASE3),
                                  !.boss.ai_state = MB_HYPER_BEAM,
                                  !.boss.ai_timer = 0,
                                  !.boss.vulnerable = TRUE]
                  ELSE [wa EXCEPT !.boss.ai_timer = t]
          [] b.ai_state = MB_HYPER_BEAM ->
               LET vx == IF dx > 0 THEN MB_BEAM_SPEED ELSE -MB_BEAM_SPEED
               IN IF st >= 30
                  THEN boss_fire([w EXCEPT !.boss.sub_timer = 0],
                                 b.body.pos.x, b.body.pos.y, vx, 0)
                  ELSE [w EXCEPT !.boss.sub_timer = st]
          [] b.ai_state = MB_DEATH ->
               LET wa == IF b.ai_timer % 10 = 0 THEN boss_shake(w, 10, 4) ELSE w
               IN [wa EXCEPT !.boss.ai_timer = t,
                             !.boss.active = IF t >= MB_DEATH_FRAMES THEN FALSE ELSE @]
          [] OTHER -> w
      contact(wc) == boss_contact(wc, /\ wc.boss.phase > 0
                                      /\ wc.boss.ai_state # MB_TANK_BREAK
                                      /\ wc.boss.ai_state # MB_HYPER_SETUP
                                      /\ wc.boss.ai_state # MB_DEATH)
  IN contact(w1)

(***************************************************************************)
(* Boss public API                                                         *)
(***************************************************************************)
boss_init_fns(type, b) ==
  CASE type = BOSS_SPORE_SPAWN -> spore_spawn_init(b)
    [] type = BOSS_CROCOMIRE -> crocomire_init(b)
    [] type = BOSS_BOMB_TORIZO -> bomb_torizo_init(b)
    [] type = BOSS_KRAID -> kraid_init(b)
    [] type = BOSS_BOTWOON -> botwoon_init(b)
    [] type = BOSS_PHANTOON -> phantoon_init(b)
    [] type = BOSS_DRAYGON -> draygon_init(b)
    [] type = BOSS_GOLDEN_TORIZO -> golden_torizo_init(b)
    [] type = BOSS_RIDLEY -> ridley_init(b)
    [] type = BOSS_MOTHER_BRAIN -> mother_brain_init(b)
    [] OTHER -> b

boss_update_fns(type, w) ==
  CASE type = BOSS_SPORE_SPAWN -> spore_spawn_update(w)
    [] type = BOSS_CROCOMIRE -> crocomire_update(w)
    [] type = BOSS_BOMB_TORIZO -> bomb_torizo_update(w)
    [] type = BOSS_KRAID -> kraid_update(w)
    [] type = BOSS_BOTWOON -> botwoon_update(w)
    [] type = BOSS_PHANTOON -> phantoon_update(w)
    [] type = BOSS_DRAYGON -> draygon_update(w)
    [] type = BOSS_GOLDEN_TORIZO -> golden_torizo_update(w)
    [] type = BOSS_RIDLEY -> ridley_update(w)
    [] type = BOSS_MOTHER_BRAIN -> mother_brain_update(w)
    [] OTHER -> w

boss_spawn(boss, type, x, y) ==
  IF type = BOSS_NONE \/ type >= BOSS_TYPE_COUNT \/ type < 0 THEN boss
  ELSE boss_init_fns(type, [ZeroBoss EXCEPT !.type = type, !.active = TRUE,
                                            !.body.pos = [x |-> x, y |-> y],
                                            !.body.env = ENV_AIR])

boss_update(w) ==
  IF ~w.boss.active THEN w ELSE boss_update_fns(w.boss.type, w)

boss_is_active(boss) == boss.active

\* Crocomire branch of boss_damage: push toward the lava threshold.
boss_damage_crocomire_hp(w) ==
  LET w1 == boss_shake([w EXCEPT !.boss.invuln_timer = BOSS_HIT_INVULN,
                                 !.boss.hp = S16(@ - 1),
                                 !.boss.body.pos.x = @ + CROC_PUSH_PER_HIT,
                                 !.boss.ai_state = CROC_FLINCH,
                                 !.boss.ai_timer = 0], 5, 2)
  IN w1

boss_damage_crocomire(w) ==
  LET w1 == boss_shake([w EXCEPT !.boss.invuln_timer = BOSS_HIT_INVULN,
                                 !.boss.body.pos.x = @ + CROC_PUSH_PER_HIT,
                                 !.boss.ai_state = CROC_FLINCH,
                                 !.boss.ai_timer = 0], 5, 2)
  IN IF w1.boss.body.pos.x >= w1.boss.anchor_x
     THEN boss_shake([w1 EXCEPT !.boss.body.pos.x = w1.boss.anchor_x,
                                !.boss.vulnerable = FALSE,
                                !.boss.ai_state = CROC_FALLING,
                                !.boss.ai_timer = 0], 30, 4)
     ELSE w1

\* Mother Brain case of the death switch: phase transitions for phases 1
\* and 2, the death sequence for phase 3.
mother_brain_depleted_dies(b) ==
  [b EXCEPT !.ai_state = MB_DEATH]

mother_brain_depleted(b) ==
  IF b.phase = 0
  THEN [b EXCEPT !.ai_state = MB_TANK_BREAK, !.ai_timer = 0, !.vulnerable = FALSE]
  ELSE IF b.phase = 1
  THEN [b EXCEPT !.ai_state = MB_HYPER_SETUP, !.ai_timer = 0, !.vulnerable = FALSE]
  ELSE [b EXCEPT !.ai_state = MB_DEATH]

\* switch (g_boss.type) selecting the boss-specific death state.
boss_death_state_instant(b) ==
  [b EXCEPT !.active = FALSE]

boss_death_state(b) ==
  CASE b.type = BOSS_SPORE_SPAWN -> [b EXCEPT !.ai_state = SS_DEATH]
    [] b.type = BOSS_BOMB_TORIZO -> [b EXCEPT !.ai_state = BT_DEATH]
    [] b.type = BOSS_KRAID -> [b EXCEPT !.ai_state = KRAID_DEATH]
    [] b.type = BOSS_BOTWOON -> [b EXCEPT !.ai_state = BOT_DEATH]
    [] b.type = BOSS_PHANTOON -> [b EXCEPT !.ai_state = PH_DEATH]
    [] b.type = BOSS_DRAYGON -> [b EXCEPT !.ai_state = DY_DEATH]
    [] b.type = BOSS_GOLDEN_TORIZO -> [b EXCEPT !.ai_state = GT_DEATH]
    [] b.type = BOSS_RIDLEY -> [b EXCEPT !.ai_state = RI_DEATH]
    [] b.type = BOSS_MOTHER_BRAIN -> mother_brain_depleted(b)
    [] OTHER -> [b EXCEPT !.active = FALSE]

\* "if (g_boss.hp <= 0) { ... }" at the end of boss_damage.
boss_damage_death_check(w) ==
  IF w.boss.hp <= 0
  THEN LET w1 == boss_shake([w EXCEPT !.boss.hp = 0, !.boss.vulnerable = FALSE,
                                      !.boss.ai_timer = 0], 30, 4)
       IN [w1 EXCEPT !.boss = boss_death_state(w1.boss)]
  ELSE w

\* Standard HP-based damage for every boss but Crocomire.
\* boss_damage_standard with the catch tested before the deduction and
\* without the hp > 0 and state conditions.
boss_damage_standard_always_catch(w, damage) ==
  LET w1 == boss_shake([w EXCEPT !.boss.hp = S16(@ - damage),
                                 !.boss.invuln_timer = BOSS_HIT_INVULN], 5, 2)
      b1 == w1.boss
  IN IF b1.type = BOSS_GOLDEN_TORIZO /\ damage >= 200
     THEN [w1 EXCEPT !.boss.hp = S16(@ + damage),
                     !.boss.ai_state = GT_CATCH, !.boss.ai_timer = 0,
                     !.boss.param_b = FX_ONE]
     ELSE boss_damage_death_check(w1)

boss_damage_standard(w, damage) ==
  LET w1 == boss_shake([w EXCEPT !.boss.hp = S16(@ - damage),
                                 !.boss.invuln_timer = BOSS_HIT_INVULN], 5, 2)
      b1 == w1.boss
      w2 == IF b1.type = BOSS_KRAID /\ b1.hp > 0
            THEN [w1 EXCEPT !.boss.ai_state = KRAID_FLINCH, !.boss.ai_timer = 0,
                            !.boss.vulnerable = FALSE]
            ELSE w1
      w3 == IF /\ b1.type = BOSS_PHANTOON
               /\ b1.hp > 0
               /\ damage >= 200
               /\ b1.param_b = 0
            THEN [w2 EXCEPT !.boss.param_b = FX_ONE]
            ELSE w2
  IN IF /\ b1.type = BOSS_GOLDEN_TORIZO
        /\ b1.hp > 0
        /\ damage >= 200
        /\ b1.ai_state # GT_CATCH
        /\ b1.ai_state # GT_THROW_BACK
     THEN [w3 EXCEPT !.boss.hp = S16(@ + damage),
                     !.boss.ai_state = GT_CATCH, !.boss.ai_timer = 0,
                     !.boss.param_b = FX_ONE]
     ELSE boss_damage_death_check(w3)

boss_damage_no_invuln_guard(w, damage) ==
  IF ~w.boss.active THEN w
  ELSE IF ~w.boss.vulnerable THEN w
  ELSE IF w.boss.type = BOSS_CROCOMIRE THEN boss_damage_crocomire(w)
  ELSE boss_damage_standard(w, damage)

boss_damage(w, damage) ==
  IF ~w.boss.active THEN w
  ELSE IF ~w.boss.vulnerable THEN w
  ELSE IF w.boss.invuln_timer > 0 THEN w
  ELSE IF w.boss.type = BOSS_CROCOMIRE THEN boss_damage_crocomire(w)
  ELSE boss_damage_standard(w, damage)

(***************************************************************************)
(* Projectile per-frame update (projectile.c)                              *)
(***************************************************************************)
\* bomb_explode that leaves the bomb blocks standing.
bomb_explode_no_block_break(st, p) ==
  LET def == proj_defs[p.type + 1]
      blast == [half_w |-> def.half_w, half_h |-> def.half_h]
      RECURSIVE Hit(_, _)
      Hit(e, ep) ==
        IF e < 0 THEN ep
        ELSE IF aabb_overlap(p.pos, blast, ep[e].body.pos, ep[e].body.hitbox)
        THEN Hit(e - 1, enemy_damage(ep, st.ec, e, def.damage))
        ELSE Hit(e - 1, ep)
      center_tx == FX_TO_INT(p.pos.x) \div TILE_SIZE
      center_ty == FX_TO_INT(p.pos.y) \div TILE_SIZE
      r0 == FX_TO_INT(def.half_w) \div TILE_SIZE
      radius_tiles == IF r0 < 1 THEN 1 ELSE r0
      InBlast(idx) ==
        LET tx == idx % st.room.width_tiles
            ty == idx \div st.room.width_tiles
        IN /\ tx >= center_tx - radius_tiles /\ tx <= center_tx + radius_tiles
           /\ ty >= center_ty - radius_tiles /\ ty <= center_ty + radius_tiles
           /\ room_get_collision(st.room, tx, ty) = COLL_SPECIAL_BOMB
      room1 == IF st.room.loaded /\ st.room.width_tiles > 0
               THEN [st.room EXCEPT !.collision =
                       [idx \in DOMAIN st.room.collision |->
                          IF idx < st.room.width_tiles * st.room.height_tiles /\ InBlast(idx)
                          THEN COLL_AIR ELSE st.room.collision[idx]]]
               ELSE st.room
      px == Abs(p.pos.x - st.player.body.pos.x)
      py == Abs(p.pos.y - st.player.body.pos.y)
  IN [st EXCEPT !.ep = Hit(enemy_get_count(st.ec) - 1, st.ep),
                !.player.body.vel.y =
                   IF px < INT_TO_FX(16) /\ py < INT_TO_FX(16) THEN -BOMB_JUMP_VEL ELSE @]

\* st is the state projectile_update_all works on: the projectile pool
\* (pp, pc), the enemy pool (ep, ec), the boss, the camera, the player and
\* the room, plus the bookkeeping fields origin and log (see
\* enemy_update_one).
bomb_explode(st, p) ==
  LET def == proj_defs[p.type + 1]
      blast == [half_w |-> def.half_w, half_h |-> def.half_h]
      RECURSIVE Hit(_, _)
      Hit(e, ep) ==
        IF e < 0 THEN ep
        ELSE IF aabb_overlap(p.pos, blast, ep[e].body.pos, ep[e].body.hitbox)
        THEN Hit(e - 1, enemy_damage(ep, st.ec, e, def.damage))
        ELSE Hit(e - 1, ep)
      center_tx == FX_TO_INT(p.pos.x) \div TILE_SIZE
      center_ty == FX_TO_INT(p.pos.y) \div TILE_SIZE
      r0 == FX_TO_INT(def.half_w) \div TILE_SIZE
      radius_tiles == IF r0 < 1 THEN 1 ELSE r0
      InBlast(idx) ==
        LET tx == idx % st.room.width_tiles
            ty == idx \div st.room.width_tiles
        IN /\ tx >= center_tx - radius_tiles /\ tx <= center_tx + radius_tiles
           /\ ty >= center_ty - radius_tiles /\ ty <= center_ty + radius_tiles
           /\ room_get_collision(st.room, tx, ty) = COLL_SPECIAL_BOMB
      room1 == IF st.room.loaded /\ st.room.width_tiles > 0
               THEN [st.room EXCEPT !.collision =
                       [idx \in DOMAIN st.room.collision |->
                          IF idx < st.room.width_tiles * st.room.height_tiles /\ InBlast(idx)
                          THEN COLL_AIR ELSE st.room.collision[idx]]]
               ELSE st.room
      px == Abs(p.pos.x - st.player.body.pos.x)
      py == Abs(p.pos.y - st.player.body.pos.y)
  IN [st EXCEPT !.ep = Hit(enemy_get_count(st.ec) - 1, st.ep),
                !.room = room1,
                !.player.body.vel.y =
                   IF px < INT_TO_FX(16) /\ py < INT_TO_FX(16) THEN -BOMB_JUMP_VEL ELSE @]

\* check_enemy_hits that deactivates the projectile on its first hit
\* whatever its type.
check_enemy_hits_first_hit_stops(st, proj_idx) ==
  LET p == st.pp[proj_idx]
      RECURSIVE Scan(_, _)
      Scan(e, s) ==
        IF e < 0 THEN s
        ELSE IF aabb_overlap(p.pos, p.hitbox, s.ep[e].body.pos, s.ep[e].body.hitbox)
        THEN [s EXCEPT !.ep = enemy_damage(s.ep, s.ec, e, p.damage),
                       !.pp[proj_idx].active = FALSE]
        ELSE Scan(e - 1, s)
  IN Scan(enemy_get_count(st.ec) - 1, st)

\* Returns st with the enemies damaged and pool slot proj_idx possibly
\* deactivated.
check_enemy_hits(st, proj_idx) ==
  LET p == st.pp[proj_idx]
      def == proj_defs[p.type + 1]
      RECURSIVE Scan(_, _)
      Scan(e, s) ==
        IF e < 0 THEN s
        ELSE IF aabb_overlap(p.pos, p.hitbox, s.ep[e].body.pos, s.ep[e].body.hitbox)
        THEN LET s1 == [s EXCEPT !.ep = enemy_damage(s.ep, s.ec, e, p.damage)]
             IN IF ~def.enemy_pass
                THEN [s1 EXCEPT !.pp[proj_idx].active = FALSE]
                ELSE Scan(e - 1, s1)
        ELSE Scan(e - 1, s)
  IN Scan(enemy_get_count(st.ec) - 1, st)

check_boss_hit(st, proj_idx) ==
  LET p == st.pp[proj_idx]
  IN IF ~boss_is_active(st.boss) THEN st
     ELSE IF aabb_overlap(p.pos, p.hitbox, st.boss.body.pos, st.boss.body.hitbox)
     THEN LET w == boss_damage(World(st.boss, st.pp, st.pc, st.player, st.camera), p.damage)
          IN [st EXCEPT !.boss = w.boss, !.camera = w.camera,
                        !.pp[proj_idx].active = FALSE]
     ELSE st

check_player_hit(st, proj_idx) ==
  LET p == st.pp[proj_idx]
  IN IF aabb_overlap(p.pos, p.hitbox, st.player.body.pos, st.player.body.hitbox)
     THEN [st EXCEPT !.player = player_damage(st.player, p.damage),
                     !.pp[proj_idx].active = FALSE]
     ELSE st

\* projectile_remove(i) inside the update loop, applied to the pool and to
\* the origin bookkeeping alike.
projectile_drop(st, i) ==
  LET r == projectile_remove(st.pp, st.pc, i)
      o == projectile_remove(st.origin, st.pc, i)
  IN [st EXCEPT !.pp = r.pool, !.pc = r.count, !.origin = o.pool]

\* projectile_update_one with the boss tested before the enemy pool.
projectile_update_one_boss_first(st0, i) ==
  LET p0 == st0.pp[i]
      st == [st0 EXCEPT !.log = Append(st0.log, st0.origin[i])]
  IN IF ~p0.active THEN projectile_drop(st0, i)
     ELSE IF p0.type = PROJ_BOMB \/ p0.type = PROJ_POWER_BOMB THEN
       LET timer == IF p0.timer > 0 THEN p0.timer - 1 ELSE p0.timer
           p1 == [p0 EXCEPT !.timer = timer]
       IN IF timer = 0
          THEN projectile_drop(bomb_explode([st EXCEPT !.pp[i] = p1], p1), i)
          ELSE [st EXCEPT !.pp[i] = p1]
     ELSE
       LET p1 == [p0 EXCEPT !.pos.x = @ + p0.vel.x, !.pos.y = @ + p0.vel.y]
           p2 == IF p1.lifetime > 0 THEN [p1 EXCEPT !.lifetime = @ - 1] ELSE p1
           expired == p1.lifetime > 0 /\ p2.lifetime = 0
           s2 == [st EXCEPT !.pp[i] = p2]
           def == proj_defs[p2.type + 1]
           tile_x == FX_TO_INT(p2.pos.x) \div TILE_SIZE
           tile_y == FX_TO_INT(p2.pos.y) \div TILE_SIZE
           coll == room_get_collision(s2.room, tile_x, tile_y)
           shot == ~def.wall_pass /\ coll = COLL_SPECIAL_SHOT /\ p2.owner = PROJ_OWNER_PLAYER
           s3 == IF shot
                 THEN [s2 EXCEPT !.room = room_set_collision(s2.room, tile_x, tile_y, COLL_AIR)]
                 ELSE s2
           s4 == check_boss_hit(s3, i)
           s5 == check_enemy_hits(s4, i)
           s6 == check_player_hit(s3, i)
       IN IF expired THEN projectile_drop(s2, i)
          ELSE IF ~def.wall_pass /\ tile_is_solid(coll) THEN projectile_drop(s2, i)
          ELSE IF shot /\ ~def.enemy_pass THEN projectile_drop(s3, i)
          ELSE IF p2.owner = PROJ_OWNER_PLAYER
          THEN (IF ~s4.pp[i].active THEN projectile_drop(s4, i)
                ELSE IF ~s5.pp[i].active THEN projectile_drop(s5, i)
                ELSE s5)
          ELSE (IF ~s6.pp[i].active THEN projectile_drop(s6, i) ELSE s6)

\* Loop body of projectile_update_all for slot i.
projectile_update_one(st0, i) ==
  LET p0 == st0.pp[i]
      st == [st0 EXCEPT !.log = Append(st0.log, st0.origin[i])]
  IN IF ~p0.active THEN projectile_drop(st0, i)
     ELSE IF p0.type = PROJ_BOMB \/ p0.type = PROJ_POWER_BOMB THEN
       LET timer == IF p0.timer > 0 THEN p0.timer - 1 ELSE p0.timer
           p1 == [p0 EXCEPT !.timer = timer]
       IN IF timer = 0
          THEN projectile_drop(bomb_explode([st EXCEPT !.pp[i] = p1], p1), i)
          ELSE [st EXCEPT !.pp[i] = p1]
     ELSE
       LET p1 == [p0 EXCEPT !.pos.x = @ + p0.vel.x, !.pos.y = @ + p0.vel.y]
           p2 == IF p1.lifetime > 0 THEN [p1 EXCEPT !.lifetime = @ - 1] ELSE p1
           expired == p1.lifetime > 0 /\ p2.lifetime = 0
           s2 == [st EXCEPT !.pp[i] = p2]
           def == proj_defs[p2.type + 1]
           tile_x == FX_TO_INT(p2.pos.x) \div TILE_SIZE
           tile_y == FX_TO_INT(p2.pos.y) \div TILE_SIZE
           coll == room_get_collision(s2.room, tile_x, tile_y)
           shot == ~def.wall_pass /\ coll = COLL_SPECIAL_SHOT /\ p2.owner = PROJ_OWNER_PLAYER
           s3 == IF shot
                 THEN [s2 EXCEPT !.room = room_set_collision(s2.room, tile_x, tile_y, COLL_AIR)]
                 ELSE s2
           s4 == check_enemy_hits(s3, i)
           s5 == check_boss_hit(s4, i)
           s6 == check_player_hit(s3, i)
       IN IF expired THEN projectile_drop(s2, i)
          ELSE IF ~def.wall_pass /\ tile_is_solid(coll) THEN projectile_drop(s2, i)
          ELSE IF shot /\ ~def.enemy_pass THEN projectile_drop(s3, i)
          ELSE IF p2.owner = PROJ_OWNER_PLAYER
          THEN (IF ~s4.pp[i].active THEN projectile_drop(s4, i)
                ELSE IF ~s5.pp[i].active THEN projectile_drop(s5, i)
                ELSE s5)
          ELSE (IF ~s6.pp[i].active THEN projectile_drop(s6, i) ELSE s6)

ProjUpdateState(pp, pc, ep, ec, boss, camera, player, room) ==
  [pp |-> pp, pc |-> pc, ep |-> ep, ec |-> ec, boss |-> boss, camera |-> camera,
   player |-> player, room |-> room,
   origin |-> [s \in 0..(MAX_PROJECTILES - 1) |-> s], log |-> <<>>, i |-> pc - 1]

projectile_update_all(st0) ==
  LET RECURSIVE Loop(_)
      Loop(st) == IF st.i < 0 THEN st
                  ELSE Loop([projectile_update_one(st, st.i) EXCEPT !.i = st.i - 1])
  IN Loop(st0)

(***************************************************************************)
(* State machine: calls into the pool and boss APIs                        *)
(***************************************************************************)
\* Exploration bounds.
MaxPoolOps == 2
MaxLeadTicks == 400
MaxBossTicks == 200
MaxBossHits == 3
HitWindow == 0

\* Inputs.
EnemySpawnTypes == {ENEMY_NONE, ENEMY_ZOOMER, ENEMY_RINKA, ENEMY_TYPE_COUNT}
ProjSpawnTypes == {PROJ_NONE, PROJ_POWER_BEAM, PROJ_BOMB, PROJ_ENEMY_BULLET, PROJ_TYPE_COUNT}
BossSpawnTypes == 0..BOSS_TYPE_COUNT
EnemyDamages == {20, 1000}
BossDamages == {100, 300, 20000}
SpawnPos == [x |-> INT_TO_FX(128), y |-> INT_TO_FX(120)]
BossSpawnPos == [x |-> INT_TO_FX(200), y |-> INT_TO_FX(100)]

\* Bookkeeping record of the last call: its name, arguments, return value
\* (or, for update_all, the number of removed entities) and visit log.
Call(name, args, ret, log) == [name |-> name, args |-> args, ret |-> ret, log |-> log]

\* budget.ops counts pool API and boss_spawn calls; ticks and hits count
\* boss_update calls and accepted hits since the last successful boss_spawn;
\* since counts boss_update calls since the last accepted hit; kill is the
\* phase in which the last accepted hit brought hp to 0 or below (-1 if it
\* did not); plain tells whether the last accepted hit was a plain one (see
\* PlainHit); open counts boss_update calls since the boss last became
\* vulnerable (capped at HitWindow + 1).  In the gameplay specification
\* ticks counts gameplay_update calls, ops those with a key held, hits the
\* accepted hits on the player and since the player_update calls since the
\* last of them.
ZeroBudget ==
  [ops |-> 0, ticks |-> 0, hits |-> 0, since |-> 0, kill |-> -1, plain |-> FALSE, open |-> 0]

\* Pools filled through the spawn API, used as starting points.
\* The pool after n successful spawns into an empty pool: spawn k writes
\* slot k and leaves the other slots alone.
PrefillEnemy(k) ==
  LET type == << ENEMY_ZOOMER, ENEMY_WAVER, ENEMY_RINKA, ENEMY_SIDEHOPPER >>[(k % 4) + 1]
  IN enemy_spawn(enemy_pool_init.pool, k, type, INT_TO_FX(24 + 12 * k), INT_TO_FX(100)).pool[k]

PrefillEnemies(n) ==
  [pool |-> [k \in 0..(MAX_ENEMIES - 1) |->
               IF k < n THEN PrefillEnemy(k) ELSE enemy_pool_init.pool[k]],
   count |-> n]

PrefillProjectile(k) ==
  LET pool == projectile_pool_init.pool
      s == CASE k % 4 = 0 ->
                  projectile_spawn(pool, k, PROJ_POWER_BEAM, PROJ_OWNER_PLAYER,
                                   INT_TO_FX(24 + 6 * k), INT_TO_FX(100), INT_TO_FX(4), 0)
             [] k % 4 = 1 ->
                  projectile_spawn(pool, k, PROJ_ENEMY_BULLET, PROJ_OWNER_ENEMY,
                                   INT_TO_FX(128), INT_TO_FX(120), INT_TO_FX(2), 0)
             [] k % 4 = 2 ->
                  projectile_spawn(pool, k, PROJ_BOMB, PROJ_OWNER_PLAYER,
                                   INT_TO_FX(24 + 6 * k), INT_TO_FX(150), 0, 0)
             [] OTHER ->
                  projectile_spawn(pool, k, PROJ_ENEMY_BULLET, PROJ_OWNER_ENEMY,
                                   INT_TO_FX(24 + 6 * k), INT_TO_FX(40), -INT_TO_FX(2), 0)
  IN s.pool[k]

PrefillProjectiles(n) ==
  [pool |-> [k \in 0..(MAX_PROJECTILES - 1) |->
               IF k < n THEN PrefillProjectile(k) ELSE projectile_pool_init.pool[k]],
   count |-> n]

EnemyPrefills == {0, 3, MAX_ENEMIES - 1}
ProjPrefills == {0, 3, MAX_PROJECTILES - 1}

\* The player in room (0,1), 8 px left of the shot blocks at tiles (20,8)
\* and (21,8), one frame after firing the types of ShotVolleyTypes to the
\* right (gameplay.c:313-321): each shot is 4 px from the player, and the
\* next projectile_update_all moves it into tile (20,8).
ShotVolleyTypes == << PROJ_POWER_BEAM, PROJ_PLASMA_BEAM, PROJ_WAVE_BEAM >>

ShotVolleyPlayerPos == [x |-> INT_TO_FX(312), y |-> INT_TO_FX(136)]

ShotVolley ==
  LET RECURSIVE Fire(_, _)
      Fire(k, r) ==
        IF k > Len(ShotVolleyTypes) THEN r
        ELSE Fire(k + 1,
                  projectile_spawn(r.pool, r.count, ShotVolleyTypes[k], PROJ_OWNER_PLAYER,
                                   ShotVolleyPlayerPos.x + INT_TO_FX(4),
                                   ShotVolleyPlayerPos.y, INT_TO_FX(4), 0))
  IN Fire(1, [pool |-> projectile_pool_init.pool, count |-> 0, ret |-> -1])

\* A sidehopper standing where the boss is spawned, with a player beam and
\* an enemy bullet both one frame away from its centre: sel chooses the
\* bullet alone, the beam alone, or both.
CrossFireSelections == { <<PROJ_ENEMY_BULLET>>, <<PROJ_POWER_BEAM>>,
                         <<PROJ_ENEMY_BULLET, PROJ_POWER_BEAM>> }

CrossFireEnemies ==
  enemy_spawn(enemy_pool_init.pool, 0, ENEMY_SIDEHOPPER, BossSpawnPos.x, BossSpawnPos.y)

CrossFireShots(sel) ==
  LET RECURSIVE Fire(_, _)
      Fire(k, r) ==
        IF k > Len(sel) THEN r
        ELSE LET speed == proj_defs[sel[k] + 1].speed
                 owner == IF sel[k] = PROJ_ENEMY_BULLET
                          THEN PROJ_OWNER_ENEMY ELSE PROJ_OWNER_PLAYER
             IN Fire(k + 1,
                     projectile_spawn(r.pool, r.count, sel[k], owner,
                                      BossSpawnPos.x - speed, BossSpawnPos.y, speed, 0))
  IN Fire(1, [pool |-> projectile_pool_init.pool, count |-> 0, ret |-> -1])

InitPool ==
  /\ g_boss = boss_init
  /\ g_camera = camera_init
  /\ op = Call("init", <<>>, 0, <<>>)
  /\ budget = ZeroBudget
  /\ \/ /\ \E n \in EnemyPrefills :
             /\ e_pool = PrefillEnemies(n).pool
             /\ e_count = PrefillEnemies(n).count
        /\ \E n \in ProjPrefills :
             /\ p_pool = PrefillProjectiles(n).pool
             /\ p_count = PrefillProjectiles(n).count
        /\ g_player = player_init
        /\ g_current_room = load_room_0_0
     \/ /\ e_pool = CrossFireEnemies.pool
        /\ e_count = CrossFireEnemies.count
        /\ \E sel \in CrossFireSelections :
             /\ p_pool = CrossFireShots(sel).pool
             /\ p_count = CrossFireShots(sel).count
        /\ g_player = player_init
        /\ g_current_room = load_room_0_0
     \/ /\ e_pool = enemy_pool_init.pool
        /\ e_count = 0
        /\ p_pool = ShotVolley.pool
        /\ p_count = ShotVolley.count
        /\ g_player = [player_init EXCEPT !.body.pos = ShotVolleyPlayerPos]
        /\ g_current_room = load_room_0_1

PoolStep == budget.ops < MaxPoolOps /\ budget' = [budget EXCEPT !.ops = @ + 1]

EnemySpawn ==
  \E type \in EnemySpawnTypes :
    LET r == enemy_spawn(e_pool, e_count, type, SpawnPos.x, SpawnPos.y)
    IN /\ PoolStep
       /\ e_pool' = r.pool
       /\ e_count' = r.count
       /\ op' = Call("enemy_spawn", <<type>>, r.ret, <<>>)
       /\ UNCHANGED <<p_pool, p_count, g_boss, g_player, g_camera, g_current_room>>

EnemyRemove ==
  \E index \in {-1, 0, e_count - 1, e_count} :
    LET r == enemy_remove(e_pool, e_count, index)
    IN /\ PoolStep
       /\ e_pool' = r.pool
       /\ e_count' = r.count
       /\ op' = Call("enemy_remove", <<index>>, 0, <<>>)
       /\ UNCHANGED <<p_pool, p_count, g_boss, g_player, g_camera, g_current_room>>

EnemyClearAll ==
  /\ PoolStep
  /\ e_pool' = enemy_clear_all.pool
  /\ e_count' = enemy_clear_all.count
  /\ op' = Call("enemy_clear_all", <<>>, 0, <<>>)
  /\ UNCHANGED <<p_pool, p_count, g_boss, g_player, g_camera, g_current_room>>

EnemyDamage ==
  \E index \in {-1, 0, e_count - 1, e_count}, damage \in EnemyDamages :
    /\ PoolStep
    /\ e_pool' = enemy_damage(e_pool, e_count, index, damage)
    /\ op' = Call("enemy_damage", <<index, damage>>, 0, <<>>)
    /\ UNCHANGED <<e_count, p_pool, p_count, g_boss, g_player, g_camera, g_current_room>>

EnemyUpdateAll ==
  LET Store(r) ==
        /\ PoolStep
        /\ e_pool' = r.pool
        /\ e_count' = r.count
        /\ g_player' = r.player
        /\ op' = Call("enemy_update_all", <<>>, e_count - r.count, r.log)
        /\ UNCHANGED <<p_pool, p_count, g_boss, g_camera, g_current_room>>
  IN Store(enemy_update_all(g_current_room, e_pool, e_count, g_player))

ProjectileSpawn ==
  \E type \in ProjSpawnTypes :
    LET owner == IF type = PROJ_ENEMY_BULLET THEN PROJ_OWNER_ENEMY ELSE PROJ_OWNER_PLAYER
        r == projectile_spawn(p_pool, p_count, type, owner, SpawnPos.x, SpawnPos.y,
                              INT_TO_FX(2), 0)
    IN /\ PoolStep
       /\ p_pool' = r.pool
       /\ p_count' = r.count
       /\ op' = Call("projectile_spawn", <<type>>, r.ret, <<>>)
       /\ UNCHANGED <<e_pool, e_count, g_boss, g_player, g_camera, g_current_room>>

ProjectileRemove ==
  \E index \in {-1, 0, p_count - 1, p_count} :
    LET r == projectile_remove(p_pool, p_count, index)
    IN /\ PoolStep
       /\ p_pool' = r.pool
       /\ p_count' = r.count
       /\ op' = Call("projectile_remove", <<index>>, 0, <<>>)
       /\ UNCHANGED <<e_pool, e_count, g_boss, g_player, g_camera, g_current_room>>

ProjectileClearAll ==
  /\ PoolStep
  /\ p_pool' = projectile_clear_all.pool
  /\ p_count' = projectile_clear_all.count
  /\ op' = Call("projectile_clear_all", <<>>, 0, <<>>)
  /\ UNCHANGED <<e_pool, e_count, g_boss, g_player, g_camera, g_current_room>>

ProjectileUpdateAll ==
  LET Store(r) ==
        /\ PoolStep
        /\ p_pool' = r.pp
        /\ p_count' = r.pc
        /\ e_pool' = r.ep
        /\ g_boss' = r.boss
        /\ g_camera' = r.camera
        /\ g_player' = r.player
        /\ g_current_room' = r.room
        /\ op' = Call("projectile_update_all", <<>>, p_count - r.pc, r.log)
        /\ UNCHANGED e_count
  IN Store(projectile_update_all(
             ProjUpdateState(p_pool, p_count, e_pool, e_count, g_boss, g_camera,
                             g_player, g_current_room)))

BossSpawn ==
  \E type \in BossSpawnTypes :
    LET b == boss_spawn(g_boss, type, BossSpawnPos.x, BossSpawnPos.y)
        valid == type # BOSS_NONE /\ type < BOSS_TYPE_COUNT
    IN /\ budget.ops < MaxPoolOps
       /\ g_boss' = b
       /\ op' = Call("boss_spawn", <<type>>, 0, <<>>)
       /\ budget' = IF valid THEN [ZeroBudget EXCEPT !.ops = budget.ops + 1]
                    ELSE [budget EXCEPT !.ops = @ + 1]
       /\ UNCHANGED <<e_pool, e_count, p_pool, p_count, g_player, g_camera, g_current_room>>

\* Frames are explored up to MaxLeadTicks before the first accepted hit, up
\* to MaxBossTicks after an accepted hit that depleted hp or while the boss
\* is not vulnerable, and to the end of the hit window after any other
\* accepted hit.
MayUpdate ==
  \/ budget.hits = 0 /\ budget.ticks < MaxLeadTicks
  \/ budget.hits > 0 /\ (budget.kill >= 0 \/ ~g_boss.vulnerable)
                     /\ budget.since < MaxBossTicks
  \/ budget.hits > 0 /\ budget.since < BOSS_HIT_INVULN + HitWindow
  \/ budget.hits > 0 /\ g_boss.type = BOSS_GOLDEN_TORIZO
                     /\ g_boss.ai_state \in {GT_CATCH, GT_THROW_BACK}
                     /\ budget.since < MaxBossTicks

BossUpdate ==
  LET Store(r) ==
        /\ MayUpdate
        /\ g_boss' = r.boss
        /\ p_pool' = r.pp
        /\ p_count' = r.pc
        /\ g_player' = r.player
        /\ g_camera' = r.camera
        /\ op' = Call("boss_update", <<>>, 0, <<>>)
        /\ budget' = [budget EXCEPT !.ticks = @ + 1, !.since = @ + 1,
                                    !.open = IF ~g_boss.vulnerable /\ r.boss.vulnerable
                                             THEN 0
                                             ELSE IF @ > HitWindow THEN @ ELSE @ + 1]
        /\ UNCHANGED <<e_pool, e_count, g_current_room>>
  IN Store(boss_update(World(g_boss, p_pool, p_count, g_player, g_camera)))

\* Accepted hits are explored up to MaxBossHits, each within HitWindow
\* frames of the boss becoming vulnerable or of the end of the previous
\* hit's invulnerability window; rejected calls are explored everywhere.
MayHit ==
  /\ budget.hits < MaxBossHits
  /\ \/ budget.open <= HitWindow
     \/ budget.hits > 0 /\ budget.since <= BOSS_HIT_INVULN + HitWindow

\* A hit of damage d on boss b that boss_damage processes on its standard
\* path without depleting hp: b is hittable, is not Crocomire (hits push
\* it), the hit is not one Golden Torizo catches, and d is below hp.
PlainHit(b, d) ==
  /\ b.active
  /\ b.vulnerable
  /\ b.invuln_timer = 0
  /\ b.type # BOSS_CROCOMIRE
  /\ ~(b.type = BOSS_GOLDEN_TORIZO /\ d >= 200
         /\ b.ai_state # GT_CATCH /\ b.ai_state # GT_THROW_BACK)
  /\ d < b.hp

BossDamage ==
  \E damage \in BossDamages :
    LET r == boss_damage(World(g_boss, p_pool, p_count, g_player, g_camera), damage)
        accepted == r.boss # g_boss
    IN /\ accepted => MayHit
       /\ g_boss' = r.boss
       /\ g_camera' = r.camera
       /\ op' = Call("boss_damage", <<damage>>, IF accepted THEN 1 ELSE 0, <<>>)
       /\ budget' = IF accepted
                    THEN [budget EXCEPT !.hits = @ + 1, !.since = 0,
                                        !.kill = IF r.boss.hp <= 0 THEN g_boss.phase ELSE -1,
                                        !.plain = PlainHit(g_boss, damage)]
                    ELSE budget
       /\ UNCHANGED <<e_pool, e_count, p_pool, p_count, g_player, g_current_room>>

\* Crocomire after n cycles of one accepted hit, the flinch it causes and
\* one frame of advancing.
CrocPrePushes == 18

CrocCycle(w0) ==
  LET RECURSIVE Loop(_)
      Loop(s) == IF s.k = 0 THEN s.w
                 ELSE Loop([w |-> boss_update(s.w), k |-> s.k - 1])
  IN Loop([w |-> boss_damage(w0, 300), k |-> CROC_FLINCH_FRAMES + 1])

RECURSIVE CrocPushedFrom(_, _)
CrocPushedFrom(w, n) == IF n = 0 THEN w ELSE CrocCycle(CrocPushedFrom(w, n - 1))

CrocSpawned ==
  World(boss_spawn(boss_init, BOSS_CROCOMIRE, BossSpawnPos.x, BossSpawnPos.y),
        projectile_pool_init.pool, projectile_pool_init.count,
        player_init, camera_init)

CrocPushedA == CrocPushedFrom(CrocSpawned, CrocPrePushes \div 3)

CrocPushedB == CrocPushedFrom(CrocPushedA, CrocPrePushes \div 3)

CrocPushed == CrocPushedFrom(CrocPushedB, CrocPrePushes - 2 * (CrocPrePushes \div 3))

\* The TRANS_LOAD step of a door transition into room (0,1): pools cleared,
\* boss slot reset, room loaded, player placed at the door's spawn point
\* with zero velocity, camera reset, the room's enemies spawned.
update_door_transition_load(player, spawn_x, spawn_y) ==
  LET spawn(r, s) == enemy_spawn(r.pool, r.count, s[1], INT_TO_FX(s[2]), INT_TO_FX(s[3]))
      store(e) ==
        [ep |-> e.pool, ec |-> e.count,
         pp |-> projectile_clear_all.pool, pc |-> projectile_clear_all.count,
         boss |-> boss_init, room |-> load_room_0_1,
         player |-> [player EXCEPT !.body.pos = [x |-> INT_TO_FX(spawn_x),
                                                 y |-> INT_TO_FX(spawn_y)],
                                   !.body.vel = [x |-> 0, y |-> 0]],
         camera |-> camera_init]
  IN store(spawn(spawn(spawn(enemy_clear_all, room_0_1_spawns[1]),
                       room_0_1_spawns[2]), room_0_1_spawns[3]))

\* Room (0,1) entered through door 0 of room (0,2), whose spawn point is
\* (480, 148).
EnteredRoom01 == update_door_transition_load(player_init, 480, 148)

\* Crocomire spawned there with the player to its right, beyond the
\* threshold, then pushed CrocPrePushes times.
CrocChasedSpawned ==
  World(boss_spawn(EnteredRoom01.boss, BOSS_CROCOMIRE, BossSpawnPos.x, BossSpawnPos.y),
        EnteredRoom01.pp, EnteredRoom01.pc, EnteredRoom01.player, EnteredRoom01.camera)

CrocChasedA == CrocPushedFrom(CrocChasedSpawned, CrocPrePushes \div 3)

CrocChasedB == CrocPushedFrom(CrocChasedA, CrocPrePushes \div 3)

CrocChased == CrocPushedFrom(CrocChasedB, CrocPrePushes - 2 * (CrocPrePushes \div 3))

InitBoss ==
  /\ op = Call("init", <<>>, 0, <<>>)
  /\ LET Start(w) ==
           /\ g_boss = w.boss
           /\ p_pool = w.pp
           /\ p_count = w.pc
           /\ g_player = w.player
           /\ g_camera = w.camera
           /\ budget = [ZeroBudget EXCEPT !.ops = MaxPoolOps]
     IN \/ /\ e_pool = enemy_pool_init.pool
           /\ e_count = enemy_pool_init.count
           /\ g_current_room = load_room_0_0
           /\ \/ /\ g_boss = boss_init
                 /\ p_pool = projectile_pool_init.pool
                 /\ p_count = projectile_pool_init.count
                 /\ g_player = player_init
                 /\ g_camera = camera_init
                 /\ budget = [ZeroBudget EXCEPT !.ops = MaxPoolOps - 1]
              \/ Start(CrocPushed)
        \/ /\ e_pool = EnteredRoom01.ep
           /\ e_count = EnteredRoom01.ec
           /\ g_current_room = EnteredRoom01.room
           /\ Start(CrocChased)

NextPool ==
  \/ EnemySpawn
  \/ EnemyRemove
  \/ EnemyClearAll
  \/ EnemyDamage
  \/ EnemyUpdateAll
  \/ ProjectileSpawn
  \/ ProjectileRemove
  \/ ProjectileClearAll
  \/ ProjectileUpdateAll
  \/ BossSpawn

NextBoss ==
  \/ BossSpawn
  \/ BossUpdate
  \/ BossDamage

SpecPool == InitPool /\ [][NextPool]_vars

SpecBoss == InitBoss /\ [][NextBoss]_vars


(***************************************************************************)
(* Properties                                                              *)
(***************************************************************************)
ProgramVars ==
  <<e_pool, e_count, p_pool, p_count, g_boss, g_player, g_camera, g_current_room>>

\* Number of occurrences of v in the sequence log.
Occurrences(log, v) == Cardinality({j \in 1..Len(log) : log[j] = v})

\* C1: after any sequence of spawn, remove, clear_all, damage and update_all
\* calls the enemy pool's active count is within 0..16 and the projectile
\* pool's active count is within 0..32.
C1_CountsInRange ==
  /\ e_count \in 0..16
  /\ p_count \in 0..32

\* A spawn has just filled the last free enemy slot.
C1_Witness ==
  /\ op.name = "enemy_spawn"
  /\ op.ret = MAX_ENEMIES - 1
  /\ e_count = MAX_ENEMIES

\* C5: in one enemy_update_all or projectile_update_all call every entity
\* that is in the pool and active when the call starts is updated exactly
\* once, and nothing else is updated, even when entities are swap-removed
\* during the call.
C5_UpdatedExactlyOnce ==
  [][/\ op'.name = "enemy_update_all" =>
          /\ \A k \in 0..(e_count - 1) :
               Occurrences(op'.log, k) = IF e_pool[k].active THEN 1 ELSE 0
          /\ \A j \in 1..Len(op'.log) : op'.log[j] \in 0..(e_count - 1)
     /\ op'.name = "projectile_update_all" =>
          /\ \A k \in 0..(p_count - 1) :
               Occurrences(op'.log, k) = IF p_pool[k].active THEN 1 ELSE 0
          /\ \A j \in 1..Len(op'.log) : op'.log[j] \in 0..(p_count - 1)
    ]_vars

\* An enemy_update_all call that removed an entity and updated others.
C5_Witness ==
  /\ op.name = "enemy_update_all"
  /\ op.ret > 0
  /\ Len(op.log) > 1

\* C6: a spawn request with the 'none' type id or an out-of-range type id
\* (enemy pool, projectile pool, boss slot), or a pool spawn made while the
\* pool is full, mutates nothing; the pool spawn functions return -1.
C6_RejectedSpawnMutatesNothing ==
  [][/\ ( /\ op'.name = "enemy_spawn"
          /\ \/ op'.args[1] = ENEMY_NONE
             \/ op'.args[1] >= ENEMY_TYPE_COUNT
             \/ e_count = MAX_ENEMIES )
        => (op'.ret = -1 /\ UNCHANGED ProgramVars)
     /\ ( /\ op'.name = "projectile_spawn"
          /\ \/ op'.args[1] = PROJ_NONE
             \/ op'.args[1] >= PROJ_TYPE_COUNT
             \/ p_count = MAX_PROJECTILES )
        => (op'.ret = -1 /\ UNCHANGED ProgramVars)
     /\ ( /\ op'.name = "boss_spawn"
          /\ \/ op'.args[1] = BOSS_NONE
             \/ op'.args[1] >= BOSS_TYPE_COUNT )
        => UNCHANGED ProgramVars
    ]_vars

\* A valid projectile type was refused because the pool is full.
C6_Witness ==
  /\ op.name = "projectile_spawn"
  /\ op.args = <<PROJ_POWER_BEAM>>
  /\ op.ret = -1
  /\ p_count = MAX_PROJECTILES

\* C7: remove(i) with 0 <= i < active_count decrements active_count, leaves
\* slot i holding the former last active slot (when i was not the last),
\* zeroes the vacated tail slot and leaves every other slot unchanged;
\* remove with any other index changes nothing.
C7_SwapRemove ==
  [][/\ op'.name = "enemy_remove" =>
          LET i == op'.args[1]
              n == e_count
          IN IF 0 <= i /\ i < n
             THEN /\ e_count' = n - 1
                  /\ i # n - 1 => e_pool'[i] = e_pool[n - 1]
                  /\ e_pool'[n - 1] = ZeroEnemy
                  /\ \A k \in 0..(MAX_ENEMIES - 1) :
                       (k # i /\ k # n - 1) => e_pool'[k] = e_pool[k]
                  /\ UNCHANGED <<p_pool, p_count, g_boss, g_player, g_camera, g_current_room>>
             ELSE UNCHANGED ProgramVars
     /\ op'.name = "projectile_remove" =>
          LET i == op'.args[1]
              n == p_count
          IN IF 0 <= i /\ i < n
             THEN /\ p_count' = n - 1
                  /\ i # n - 1 => p_pool'[i] = p_pool[n - 1]
                  /\ p_pool'[n - 1] = ZeroProjectile
                  /\ \A k \in 0..(MAX_PROJECTILES - 1) :
                       (k # i /\ k # n - 1) => p_pool'[k] = p_pool[k]
                  /\ UNCHANGED <<e_pool, e_count, g_boss, g_player, g_camera, g_current_room>>
             ELSE UNCHANGED ProgramVars
    ]_vars

\* Slot 0 of a three-enemy pool was removed: the former last enemy (a
\* Rinka) now sits in slot 0.
C7_Witness ==
  /\ op.name = "enemy_remove"
  /\ op.args = <<0>>
  /\ e_count = 2
  /\ e_pool[0].type = ENEMY_RINKA
  /\ e_pool[1].type = ENEMY_WAVER


\* C2: for every boss type and damage amount, boss_damage leaves hp and
\* every other boss field unchanged whenever the boss is inactive, its
\* vulnerable flag is false, or its invuln_timer is greater than 0.
C2_RejectedHitChangesNothing ==
  [][( /\ op'.name = "boss_damage"
       /\ \/ ~g_boss.active
          \/ ~g_boss.vulnerable
          \/ g_boss.invuln_timer > 0 )
     => g_boss' = g_boss]_vars

\* A hit was refused only because the invulnerability window is running.
C2_Witness ==
  /\ op.name = "boss_damage"
  /\ op.ret = 0
  /\ g_boss.active
  /\ g_boss.vulnerable
  /\ g_boss.invuln_timer > 0

SinglePhaseBosses ==
  {BOSS_SPORE_SPAWN, BOSS_BOMB_TORIZO, BOSS_KRAID, BOSS_BOTWOON, BOSS_PHANTOON,
   BOSS_DRAYGON, BOSS_GOLDEN_TORIZO, BOSS_RIDLEY}

\* Length of the death sequence, in boss_update calls, as C3 states it.
C3_DeathFrames(type) ==
  CASE type \in {BOSS_SPORE_SPAWN, BOSS_BOMB_TORIZO, BOSS_BOTWOON, BOSS_PHANTOON,
                 BOSS_GOLDEN_TORIZO} -> 60
    [] type \in {BOSS_KRAID, BOSS_DRAYGON} -> 90
    [] type = BOSS_RIDLEY -> 120
    [] OTHER -> 0

C3_DeathState(type) ==
  CASE type = BOSS_SPORE_SPAWN -> SS_DEATH
    [] type = BOSS_BOMB_TORIZO -> BT_DEATH
    [] type = BOSS_KRAID -> KRAID_DEATH
    [] type = BOSS_BOTWOON -> BOT_DEATH
    [] type = BOSS_PHANTOON -> PH_DEATH
    [] type = BOSS_DRAYGON -> DY_DEATH
    [] type = BOSS_GOLDEN_TORIZO -> GT_DEATH
    [] type = BOSS_RIDLEY -> RI_DEATH
    [] OTHER -> -1

\* C3: a hit that brings a single-phase boss's hp to 0 or below never
\* deactivates it in the same call; the boss stays active with hp = 0 and
\* vulnerable = false in its death state, becomes inactive exactly after
\* its fixed number of boss_update calls (60, 90 or 120 by type) and stays
\* inactive afterwards.
C3_DeathSequence ==
  (g_boss.type \in SinglePhaseBosses /\ budget.kill = 0) =>
    /\ g_boss.hp = 0
    /\ ~g_boss.vulnerable
    /\ budget.since < C3_DeathFrames(g_boss.type) =>
         (g_boss.active /\ g_boss.ai_state = C3_DeathState(g_boss.type))
    /\ budget.since >= C3_DeathFrames(g_boss.type) => ~g_boss.active

\* Ridley has just gone inactive, 120 frames after the depleting hit.
C3_Witness ==
  /\ g_boss.type = BOSS_RIDLEY
  /\ budget.kill = 0
  /\ budget.since = 120
  /\ op.name = "boss_update"
  /\ ~g_boss.active

\* C4: when Mother Brain's first-phase hp is depleted, after the tank-break
\* transition its phase is 1 and hp = hp_max = 18,000; when the second-phase
\* hp is depleted, after the hyper-setup transition its phase is 2 and
\* hp = hp_max = 36,000.
C4_MotherBrainPhaseHp ==
  g_boss.type = BOSS_MOTHER_BRAIN =>
    /\ (budget.kill = 0 /\ budget.since = MB_BREAK_FRAMES) =>
         (g_boss.phase = 1 /\ g_boss.hp = 18000 /\ g_boss.hp_max = 18000)
    /\ (budget.kill = 1 /\ budget.since = MB_HYPER_SETUP_FRAMES) =>
         (g_boss.phase = 2 /\ g_boss.hp = 36000 /\ g_boss.hp_max = 36000)

\* C8: for an active, vulnerable boss with invuln_timer = 0 (not Crocomire,
\* not a hit Golden Torizo catches), boss_damage(d) with d below hp lowers
\* hp by exactly d and starts the invulnerability window; every further
\* boss_damage call has no effect until boss_update has run 10 times, after
\* which a hit is accepted again.
C8_HitThenWindow ==
  [][op'.name = "boss_damage" =>
       /\ PlainHit(g_boss, op'.args[1]) =>
            (g_boss'.hp = g_boss.hp - op'.args[1] /\ g_boss'.invuln_timer > 0)
       /\ (budget.plain /\ budget.since < 10) => g_boss' = g_boss
       /\ (budget.plain /\ budget.since >= 10) => g_boss' # g_boss
    ]_vars

\* C8 as the code has it: 10 boss_update calls after a plain hit the
\* invulnerability window is over (invuln_timer = 0), and a hit is accepted
\* again if the boss is then still active and vulnerable.
C8_HitThenWindowWhileVulnerable ==
  [][/\ op'.name = "boss_damage" =>
          /\ PlainHit(g_boss, op'.args[1]) =>
               /\ g_boss'.hp = g_boss.hp - op'.args[1]
               /\ g_boss'.invuln_timer = BOSS_HIT_INVULN
          /\ (budget.plain /\ budget.since < 10) => g_boss' = g_boss
          /\ (budget.plain /\ budget.since >= 10 /\ g_boss.active /\ g_boss.vulnerable) =>
               g_boss' # g_boss
     /\ (budget'.plain /\ budget'.since >= 10) => g_boss'.invuln_timer = 0
    ]_vars

\* A second plain hit landed exactly 10 frames after the first.
C8_Witness ==
  /\ op.name = "boss_damage"
  /\ op.ret = 1
  /\ budget.plain
  /\ budget.hits = 2
  /\ g_boss.type = BOSS_RIDLEY
  /\ g_boss.hp = RI_HP - 400

\* C9: Mother Brain is never deactivated by the hit that ends phase 1 or
\* phase 2; it is inactive exactly when the hit that ended phase 3 has been
\* followed by the 180 boss_update calls of the death sequence.
C9_MotherBrainDeath ==
  g_boss.type = BOSS_MOTHER_BRAIN =>
    (g_boss.active <=> ~(budget.kill = 2 /\ budget.since >= 180))

\* Mother Brain has just gone inactive at the end of the death sequence.
C9_Witness ==
  /\ g_boss.type = BOSS_MOTHER_BRAIN
  /\ budget.kill = 2
  /\ budget.since = 180
  /\ op.name = "boss_update"
  /\ ~g_boss.active

Min(a, b) == IF a < b THEN a ELSE b

\* C10: for Crocomire no boss_damage or boss_update call changes hp; each
\* accepted hit displaces x by 8 px toward the hazard threshold, capped at
\* the threshold.
C10_CrocomirePush ==
  [][( /\ g_boss.type = BOSS_CROCOMIRE
       /\ op'.name \in {"boss_damage", "boss_update"} )
     => /\ g_boss'.hp = g_boss.hp
        /\ (op'.name = "boss_damage" /\ op'.ret = 1) =>
             g_boss'.body.pos.x = Min(g_boss.body.pos.x + INT_TO_FX(8), g_boss.anchor_x)
    ]_vars

\* A hit pushed Crocomire onto the threshold from less than 8 px away.
C10_Witness ==
  /\ g_boss.type = BOSS_CROCOMIRE
  /\ op.name = "boss_damage"
  /\ op.ret = 1
  /\ g_boss.body.pos.x = g_boss.anchor_x
  /\ g_boss.ai_state = CROC_FALLING


\* C11: in every reachable state, a Crocomire whose x is at or beyond the
\* threshold (spawn x + 160 px, kept in anchor_x) is in the falling or the
\* death state, and it is in the falling state only at the threshold.
C11_FallAtThreshold ==
  g_boss.type = BOSS_CROCOMIRE =>
    /\ g_boss.body.pos.x >= g_boss.anchor_x =>
         g_boss.ai_state \in {CROC_FALLING, CROC_DEATH}
    /\ g_boss.ai_state = CROC_FALLING => g_boss.body.pos.x = g_boss.anchor_x


\* ---------------------------------------------------------------------------
\* Golden Torizo catch (boss.c:2165-2192, 1555-1581)
\* ---------------------------------------------------------------------------

\* An accepted boss_damage call of 200 or more on Golden Torizo.
GTHighHit ==
  /\ op'.name = "boss_damage"
  /\ op'.ret = 1
  /\ g_boss.type = BOSS_GOLDEN_TORIZO
  /\ op'.args[1] >= 200

\* The hit leaves hp above zero and arrives outside the catch and throw-back
\* states (the conditions of boss.c:2183-2186).
GTCatchable ==
  /\ S16(g_boss.hp - op'.args[1]) > 0
  /\ g_boss.ai_state # GT_CATCH
  /\ g_boss.ai_state # GT_THROW_BACK

\* C12 (as stated): every accepted hit of 200 or more on Golden Torizo leaves
\* hp unchanged, does not start the death sequence, and puts the boss in the
\* catch state.
C12_HighDamageCaught ==
  [][GTHighHit =>
       /\ g_boss'.hp = g_boss.hp
       /\ g_boss'.ai_state # GT_DEATH
       /\ g_boss'.ai_state = GT_CATCH
    ]_vars

\* C12 (amended): an accepted hit of 200 or more on Golden Torizo that leaves
\* hp above zero and arrives outside the catch and throw-back states leaves hp
\* unchanged and starts the catch state with a zero timer; any other accepted
\* hit of 200 or more lowers hp by the damage (not below zero) and starts the
\* death sequence when hp reaches zero.  The catch state lasts
\* GT_CATCH_FRAMES updates and the first update of the throw-back state that
\* follows spawns an enemy bullet at the boss when the pool has room.
C12_CatchWhenSurvivable ==
  [][/\ (GTHighHit /\ GTCatchable) =>
          /\ g_boss'.hp = g_boss.hp
          /\ g_boss'.ai_state = GT_CATCH
          /\ g_boss'.ai_timer = 0
          /\ g_boss'.param_b = FX_ONE
          /\ g_boss'.vulnerable
     /\ (GTHighHit /\ ~GTCatchable) =>
          /\ g_boss'.hp = (IF S16(g_boss.hp - op'.args[1]) > 0 THEN S16(g_boss.hp - op'.args[1]) ELSE 0)
          /\ g_boss'.ai_state = IF g_boss'.hp = 0 THEN GT_DEATH ELSE g_boss.ai_state
     /\ (/\ op'.name = "boss_update"
         /\ g_boss.type = BOSS_GOLDEN_TORIZO
         /\ g_boss.active) =>
          /\ (g_boss.ai_state = GT_CATCH) =>
               IF g_boss.ai_timer + 1 >= GT_CATCH_FRAMES
               THEN g_boss'.ai_state = GT_THROW_BACK /\ g_boss'.ai_timer = 0
               ELSE g_boss'.ai_state = GT_CATCH /\ g_boss'.ai_timer = g_boss.ai_timer + 1
          /\ (g_boss.ai_state = GT_THROW_BACK /\ g_boss.ai_timer = 0
                /\ p_count < MAX_PROJECTILES) =>
               /\ p_count' = p_count + 1
               /\ p_pool'[p_count].type = PROJ_ENEMY_BULLET
               /\ p_pool'[p_count].owner = PROJ_OWNER_ENEMY
               /\ p_pool'[p_count].pos = g_boss.body.pos
    ]_vars

\* Golden Torizo at full hp in the throw-back state after a caught hit, with
\* the thrown projectile in the pool.
C12_Witness ==
  /\ g_boss.type = BOSS_GOLDEN_TORIZO
  /\ g_boss.ai_state = GT_THROW_BACK
  /\ g_boss.ai_timer = 1
  /\ g_boss.hp = GT_HP
  /\ budget.hits = 1
  /\ p_count >= 1
  /\ p_pool[p_count - 1].type = PROJ_ENEMY_BULLET
  /\ p_pool[p_count - 1].owner = PROJ_OWNER_ENEMY


(***************************************************************************)
(* Physics body in a room: physics_update_body and physics_apply_gravity   *)
(* applied to g_player.body, with the callers' velocity writes as inputs.  *)
(***************************************************************************)
MaxPhysFrames == 40
MaxGravityFrames == 80
MaxImpulses == 1

\* Largest per-frame speed below one tile width.
PhysMaxSpeed == INT_TO_FX(TILE_SIZE) - 1

\* Start positions in pixels: the bodies of the physics self-tests
\* (main.c:238-239, 263-264, 288-289, 313-314) and the player start.
PhysStartPos == { <<128, 80>>, <<220, 80>>, <<30, 80>>, <<128, 128>>, <<128, 120>> }

\* Hitbox half-extents: the self-test body and standing Samus.
PhysHitboxes == { [half_w |-> INT_TO_FX(8), half_h |-> INT_TO_FX(8)],
                  [half_w |-> SAMUS_HALF_W, half_h |-> SAMUS_HALF_H] }

PhysVelX == { -PhysMaxSpeed, -RUN_SPEED, 0, RUN_SPEED, SHINESPARK_SPEED }
PhysVelY == { -PhysMaxSpeed, -JUMP_VEL_NORMAL, 0 }

\* Velocities written by a caller between two frames (run, jump, spark).
ImpulseVels == { [x |-> RUN_SPEED, y |-> 0],
                 [x |-> -RUN_SPEED, y |-> -JUMP_VEL_NORMAL],
                 [x |-> PhysMaxSpeed, y |-> -PhysMaxSpeed] }

PhysRooms == { load_room_0_0, load_room_0_1 }

PhysEnvs == { ENV_AIR, ENV_WATER }

\* Tiles covered by the hitbox: [left, right) x [top, bottom).
BodyTiles(body) ==
  [l |-> fx_to_tile(body.pos.x - body.hitbox.half_w),
   r |-> fx_to_tile(body.pos.x + body.hitbox.half_w - 1),
   t |-> fx_to_tile(body.pos.y - body.hitbox.half_h),
   b |-> fx_to_tile(body.pos.y + body.hitbox.half_h - 1)]

OverlapsSolid(room, body) ==
  LET has(c) == \E tx \in c.l..c.r : \E ty \in c.t..c.b :
                   room_get_collision(room, tx, ty) = COLL_SOLID
  IN has(BodyTiles(body))

InsideRoom(room, body) ==
  /\ body.pos.x - body.hitbox.half_w >= 0
  /\ body.pos.x + body.hitbox.half_w <= INT_TO_FX(room.width_tiles * TILE_SIZE)
  /\ body.pos.y - body.hitbox.half_h >= 0
  /\ body.pos.y + body.hitbox.half_h <= INT_TO_FX(room.height_tiles * TILE_SIZE)

InitPhysics ==
  /\ e_pool = enemy_pool_init.pool
  /\ e_count = 0
  /\ p_pool = projectile_pool_init.pool
  /\ p_count = 0
  /\ g_boss = boss_init
  /\ g_camera = camera_init
  /\ g_current_room \in PhysRooms
  /\ \E p \in PhysStartPos, hb \in PhysHitboxes, vx \in PhysVelX, vy \in PhysVelY,
        env \in PhysEnvs :
       g_player = [player_init EXCEPT
                     !.body.pos = [x |-> INT_TO_FX(p[1]), y |-> INT_TO_FX(p[2])],
                     !.body.hitbox = hb,
                     !.body.vel = [x |-> vx, y |-> vy],
                     !.body.env = env]
  /\ ~OverlapsSolid(g_current_room, g_player.body)
  /\ op = Call("init", <<>>, 0, <<g_player.body.vel.y>>)
  /\ budget = ZeroBudget

\* One frame of physics_update_body on the body.
PhysicsUpdateBody ==
  LET Store(b) ==
        /\ op.name # "physics_apply_gravity"
        /\ budget.ticks < MaxPhysFrames
        /\ g_player' = [g_player EXCEPT !.body = b]
        /\ op' = Call("physics_update_body", <<>>, 0, op.log)
        /\ budget' = [budget EXCEPT !.ticks = @ + 1]
        /\ UNCHANGED <<e_pool, e_count, p_pool, p_count, g_boss, g_camera, g_current_room>>
  IN Store(physics_update_body(g_current_room, g_player.body))

\* One frame of gravity alone, the free-fall loop of main.c:225-230; op.log
\* keeps the launch velocity.
PhysicsApplyGravity ==
  LET Store(b) ==
        /\ op.name \in {"init", "physics_apply_gravity"}
        /\ budget.ticks < MaxGravityFrames
        /\ g_player' = [g_player EXCEPT !.body = b]
        /\ op' = Call("physics_apply_gravity", <<>>, 0, op.log)
        /\ budget' = [budget EXCEPT !.ticks = @ + 1]
        /\ UNCHANGED <<e_pool, e_count, p_pool, p_count, g_boss, g_camera, g_current_room>>
  IN Store(physics_apply_gravity(g_player.body))

\* A caller writes the velocity of a body standing on the ground.
SetVelocity ==
  \E v \in ImpulseVels :
    /\ op.name = "physics_update_body"
    /\ g_player.body.contact.on_ground
    /\ budget.ops < MaxImpulses
    /\ g_player' = [g_player EXCEPT !.body.vel = v]
    /\ op' = Call("set_velocity", <<v.x, v.y>>, 0, op.log)
    /\ budget' = [budget EXCEPT !.ops = @ + 1]
    /\ UNCHANGED <<e_pool, e_count, p_pool, p_count, g_boss, g_camera, g_current_room>>

NextPhysics ==
  \/ PhysicsUpdateBody
  \/ PhysicsApplyGravity
  \/ SetVelocity

SpecPhysics == InitPhysics /\ [][NextPhysics]_vars

\* C13: a body that started inside the room clear of solid tiles and moves
\* at less than one tile width per frame on each axis never overlaps a
\* solid tile and never leaves the room bounds.
C13_NoTunneling ==
  /\ ~OverlapsSolid(g_current_room, g_player.body)
  /\ InsideRoom(g_current_room, g_player.body)
  /\ Abs(g_player.body.vel.x) < INT_TO_FX(TILE_SIZE)
  /\ Abs(g_player.body.vel.y) < INT_TO_FX(TILE_SIZE)

\* A body stopped on the same frame by a wall and by a floor or ceiling
\* while moving diagonally at the largest speed below one tile per frame.
C13_Witness ==
  /\ op.name = "physics_update_body"
  /\ op.log[1] = -PhysMaxSpeed
  /\ budget.ops = 0
  /\ g_player.body.contact.on_wall_right \/ g_player.body.contact.on_wall_left
  /\ g_player.body.contact.on_ceiling \/ g_player.body.contact.on_ground

\* The body after gravity and the horizontal move of one frame, before any
\* resolution, and after the vertical move that follows the resolved
\* horizontal one.
MovedX(body) ==
  [body EXCEPT !.pos.x = body.pos.x + body.vel.x + body.accel.x]

MovedY(before, after) ==
  [after EXCEPT !.pos.y = before.pos.y + physics_apply_gravity(before).vel.y + before.accel.y]

OnTileBoundary(v) == v % INT_TO_FX(TILE_SIZE) = 0

\* C14: on the frame in which physics_update_body finds a solid tile in the
\* way on an axis, the matching contact flag is set, the velocity on that
\* axis is zero and the colliding hitbox edge lies exactly on a tile
\* boundary: bottom edge and on_ground for a floor, top edge and on_ceiling
\* for a ceiling, right or left edge and on_wall_right or on_wall_left for
\* a wall.
C14_SnapOnCollision ==
  [][op'.name = "physics_update_body" =>
       LET b0 == g_player.body
           b1 == g_player'.body
           vy == physics_apply_gravity(b0).vel.y + b0.accel.y
           vx == b0.vel.x + b0.accel.x
       IN /\ (vx > 0 /\ OverlapsSolid(g_current_room, MovedX(b0))) =>
               b1.contact.on_wall_right
          /\ (vx < 0 /\ OverlapsSolid(g_current_room, MovedX(b0))) =>
               b1.contact.on_wall_left
          /\ (vy > 0 /\ OverlapsSolid(g_current_room, MovedY(b0, b1))) =>
               b1.contact.on_ground
          /\ (vy < 0 /\ OverlapsSolid(g_current_room, MovedY(b0, b1))) =>
               b1.contact.on_ceiling
          /\ b1.contact.on_wall_right =>
               /\ vx > 0
               /\ b1.vel.x = 0
               /\ OnTileBoundary(b1.pos.x + b1.hitbox.half_w)
          /\ b1.contact.on_wall_left =>
               /\ vx < 0
               /\ b1.vel.x = 0
               /\ OnTileBoundary(b1.pos.x - b1.hitbox.half_w)
          /\ b1.contact.on_ground =>
               /\ b1.vel.y = 0
               /\ OnTileBoundary(b1.pos.y + b1.hitbox.half_h)
          /\ b1.contact.on_ceiling =>
               /\ vy < 0
               /\ b1.vel.y = 0
               /\ OnTileBoundary(b1.pos.y - b1.hitbox.half_h)
    ]_vars

\* A body that ran through the door opening of room (0,0) into the right
\* room bound while standing on the floor: right edge at 256 px, bottom edge
\* at 160 px, both velocities zero.
C14_Witness ==
  /\ op.name = "physics_update_body"
  /\ g_current_room.width_tiles = 16
  /\ g_player.body.contact.on_wall_right
  /\ g_player.body.contact.on_ground
  /\ g_player.body.pos.x + g_player.body.hitbox.half_w = INT_TO_FX(256)
  /\ g_player.body.pos.y + g_player.body.hitbox.half_h = INT_TO_FX(160)
  /\ g_player.body.vel = [x |-> 0, y |-> 0]

(***************************************************************************)
(* Room collision grid: room_load, room_unload, room_get_collision and     *)
(* room_set_collision called in any order.                                 *)
(***************************************************************************)
MaxRoomOps == 2

\* Tile coordinates probed: inside both grids, on their last line and
\* one step outside each side.
RoomProbeX == { -1, 0, 7, 15, 16, 31, 32 }
RoomProbeY == { -1, 0, 6, 11, 12 }
RoomProbeTypes == { COLL_AIR, COLL_SOLID }
RoomIds == { 0, 1, 9 }

InitRoom ==
  /\ e_pool = enemy_pool_init.pool
  /\ e_count = 0
  /\ p_pool = projectile_pool_init.pool
  /\ p_count = 0
  /\ g_boss = boss_init
  /\ g_player = player_init
  /\ g_camera = camera_init
  /\ g_current_room = room_init
  /\ op = Call("init", <<>>, 0, <<>>)
  /\ budget = ZeroBudget

RoomLoad ==
  \E id \in RoomIds :
    /\ budget.ops < MaxRoomOps
    /\ g_current_room' = room_load(g_current_room, 0, id)
    /\ op' = Call("room_load", <<0, id>>, IF id \in {0, 1} THEN 1 ELSE 0, <<>>)
    /\ budget' = [budget EXCEPT !.ops = @ + 1]
    /\ UNCHANGED <<e_pool, e_count, p_pool, p_count, g_boss, g_player, g_camera>>

RoomUnload ==
  /\ budget.ops < MaxRoomOps
  /\ g_current_room' = room_unload(g_current_room)
  /\ op' = Call("room_unload", <<>>, 0, <<>>)
  /\ budget' = [budget EXCEPT !.ops = @ + 1]
  /\ UNCHANGED <<e_pool, e_count, p_pool, p_count, g_boss, g_player, g_camera>>

RoomGetCollision ==
  \E x \in RoomProbeX, y \in RoomProbeY :
    /\ op' = Call("room_get_collision", <<x, y>>,
                  room_get_collision(g_current_room, x, y), <<>>)
    /\ UNCHANGED <<e_pool, e_count, p_pool, p_count, g_boss, g_player, g_camera,
                   g_current_room, budget>>

RoomSetCollision ==
  \E x \in RoomProbeX, y \in RoomProbeY, t \in RoomProbeTypes :
    /\ budget.ops < MaxRoomOps
    /\ g_current_room' = room_set_collision(g_current_room, x, y, t)
    /\ op' = Call("room_set_collision", <<x, y, t>>, 0, <<>>)
    /\ budget' = [budget EXCEPT !.ops = @ + 1]
    /\ UNCHANGED <<e_pool, e_count, p_pool, p_count, g_boss, g_player, g_camera>>

NextRoom ==
  \/ RoomLoad
  \/ RoomUnload
  \/ RoomGetCollision
  \/ RoomSetCollision

SpecRoom == InitRoom /\ [][NextRoom]_vars

\* The coordinate is outside 0..width-1 by 0..height-1, or no room is loaded.
OutsideGrid(room, x, y) ==
  \/ ~room.loaded
  \/ x < 0 \/ x >= room.width_tiles
  \/ y < 0 \/ y >= room.height_tiles

\* C15: room_get_collision returns solid for every tile coordinate outside
\* the grid and for every coordinate while no room is loaded, and
\* room_set_collision on such a coordinate changes nothing in the room.
C15_OutsideIsSolid ==
  [][/\ (/\ op'.name = "room_get_collision"
          /\ OutsideGrid(g_current_room, op'.args[1], op'.args[2])) =>
          /\ op'.ret = COLL_SOLID
          /\ g_current_room' = g_current_room
     /\ (/\ op'.name = "room_set_collision"
          /\ OutsideGrid(g_current_room, op'.args[1], op'.args[2])) =>
          g_current_room' = g_current_room
    ]_vars

\* Room (0,0) untouched after a room_set_collision one column past its
\* right edge.
C15_Witness ==
  /\ op.name = "room_set_collision"
  /\ op.args = <<16, 6, COLL_AIR>>
  /\ g_current_room = load_room_0_0

\* A solid tile lies directly below the feet of the body.
GroundBelow(room, body) ==
  LET c == BodyTiles(body)
  IN row_has_solid(room, c.l, c.r, fx_to_tile(body.pos.y + body.hitbox.half_h))

\* C16: after each physics_update_body call every contact flag is true
\* exactly when that contact was found during the call, whatever the flags
\* were before it: a wall flag when the horizontal move ran into a solid
\* tile on that side, on_ceiling when the upward move did, on_ground when
\* the downward move did or a solid tile lies directly below the feet; the
\* hazard fields are cleared.
C16_ContactRecomputed ==
  [][op'.name = "physics_update_body" =>
       LET b0 == g_player.body
           b1 == g_player'.body
           vy == physics_apply_gravity(b0).vel.y + b0.accel.y
           vx == b0.vel.x + b0.accel.x
           hit_x == OverlapsSolid(g_current_room, MovedX(b0))
           hit_y == OverlapsSolid(g_current_room, MovedY(b0, b1))
       IN /\ b1.contact.on_wall_right <=> (vx > 0 /\ hit_x)
          /\ b1.contact.on_wall_left <=> (vx < 0 /\ hit_x)
          /\ b1.contact.on_ceiling <=> (vy < 0 /\ hit_y)
          /\ b1.contact.on_ground <=>
               ((vy > 0 /\ hit_y) \/ GroundBelow(g_current_room, b1))
          /\ ~b1.contact.on_hazard
          /\ b1.contact.hazard_type = 0
    ]_vars

\* A body at rest against the right wall of room (0,0), where only the
\* wall snap can have put it, one or more frames after the frame of the
\* impact: on_wall_right is false again.
C16_Witness ==
  /\ op.name = "physics_update_body"
  /\ g_current_room.width_tiles = 16
  /\ g_player.body.pos.x + g_player.body.hitbox.half_w = INT_TO_FX(240)
  /\ g_player.body.vel.x = 0
  /\ ~g_player.body.contact.on_wall_right

\* C17: under air gravity alone, a body that started at rest has
\* velocity.y below the air terminal velocity on frames 1..69, equal to it
\* from frame 70 on and never above it; a body launched with the normal
\* jump velocity has velocity.y < 0 on frames 1..63 and >= 0 from frame 64
\* on (the self-tests of main.c accept frames 69..71 and 63..65).
C17_TerminalAndApexFrames ==
  (op.name = "physics_apply_gravity" /\ g_player.body.env = ENV_AIR) =>
    /\ op.log[1] = 0 =>
         /\ g_player.body.vel.y <= TERMINAL_VEL_AIR
         /\ g_player.body.vel.y = TERMINAL_VEL_AIR <=> budget.ticks >= 70
    /\ op.log[1] = -JUMP_VEL_NORMAL =>
         (g_player.body.vel.y >= 0 <=> budget.ticks >= 64)

\* Frame 70 of a free fall from rest in air: velocity.y has just reached the
\* air terminal velocity.
C17_Witness ==
  /\ op.name = "physics_apply_gravity"
  /\ g_player.body.env = ENV_AIR
  /\ op.log[1] = 0
  /\ budget.ticks = 70
  /\ g_player.body.vel.y = TERMINAL_VEL_AIR

\* Slot i of the pool holds a player-owned projectile that the next
\* projectile_update_all moves, still alive, into a shot-block tile.
ReachesShotBlock(i) ==
  LET p == p_pool[i]
      tile_x == FX_TO_INT(p.pos.x + p.vel.x) \div TILE_SIZE
      tile_y == FX_TO_INT(p.pos.y + p.vel.y) \div TILE_SIZE
  IN /\ i < p_count
     /\ p.active
     /\ p.owner = PROJ_OWNER_PLAYER
     /\ p.type \notin {PROJ_BOMB, PROJ_POWER_BOMB}
     /\ p.lifetime # 1
     /\ room_get_collision(g_current_room, tile_x, tile_y) = COLL_SPECIAL_SHOT

\* C18: when projectile_update_all moves a player-owned projectile into a
\* shot-block tile, that tile is air after the call, and the projectile is
\* gone from the pool unless its type passes through (plasma).
C18_ShotBlockDestroyed ==
  [][op'.name = "projectile_update_all" =>
       \A i \in 0..(MAX_PROJECTILES - 1) :
         ReachesShotBlock(i) =>
           LET p == p_pool[i]
               tile_x == FX_TO_INT(p.pos.x + p.vel.x) \div TILE_SIZE
               tile_y == FX_TO_INT(p.pos.y + p.vel.y) \div TILE_SIZE
           IN /\ room_get_collision(g_current_room', tile_x, tile_y) = COLL_AIR
              /\ ~proj_defs[p.type + 1].enemy_pass =>
                   \A j \in 0..(p_count' - 1) : p_pool'[j].type # p.type
    ]_vars

\* Owners present among the projectiles of the pool.
PoolOwners == { p_pool[i].owner : i \in 0..(p_count - 1) }

\* Slot i holds a player-owned projectile that stops at the first entity it
\* hits and that, once moved, overlaps enemy e and the active boss.
HitsEnemyAndBoss(i, e) ==
  LET p == p_pool[i]
      pos == [x |-> p.pos.x + p.vel.x, y |-> p.pos.y + p.vel.y]
  IN /\ i < p_count /\ e < e_count
     /\ p.active
     /\ p.owner = PROJ_OWNER_PLAYER
     /\ p.type \notin {PROJ_BOMB, PROJ_POWER_BOMB}
     /\ ~proj_defs[p.type + 1].enemy_pass
     /\ p.lifetime # 1
     /\ ~tile_is_solid(room_get_collision(g_current_room,
                                           FX_TO_INT(pos.x) \div TILE_SIZE,
                                           FX_TO_INT(pos.y) \div TILE_SIZE))
     /\ aabb_overlap(pos, p.hitbox, e_pool[e].body.pos, e_pool[e].body.hitbox)
     /\ boss_is_active(g_boss)
     /\ aabb_overlap(pos, p.hitbox, g_boss.body.pos, g_boss.body.hitbox)

\* C19: projectile_update_all filters entity collision by owner.  With only
\* player-owned projectiles in the pool the player is left as it was, apart
\* from the upward push of an exploding bomb; with only enemy-owned
\* projectiles the enemy pool and the boss are left as they were; and a
\* single player-owned projectile that overlaps both an enemy and the boss
\* damages the enemy and leaves the boss as it was.
C19_OwnerFiltered ==
  [][op'.name = "projectile_update_all" =>
       /\ (PoolOwners \subseteq {PROJ_OWNER_PLAYER}) =>
            g_player' = [g_player EXCEPT !.body.vel.y = g_player'.body.vel.y]
       /\ (PoolOwners \subseteq {PROJ_OWNER_ENEMY}) =>
            /\ e_pool' = e_pool
            /\ g_boss' = g_boss
       /\ (p_count = 1 /\ e_count = 1 /\ HitsEnemyAndBoss(0, 0)) =>
            /\ e_pool'[0].hp = e_pool[0].hp - p_pool[0].damage
            /\ g_boss' = g_boss
            /\ p_count' = 0
    ]_vars

\* After projectile_update_all: the sidehopper has taken the one beam of the
\* pool, and the vulnerable Golden Torizo spawned on the same spot is
\* untouched.
C19_Witness ==
  /\ op.name = "projectile_update_all"
  /\ op.ret = 1
  /\ p_count = 0
  /\ e_count = 1
  /\ e_pool[0].type = ENEMY_SIDEHOPPER
  /\ e_pool[0].hp = e_pool[0].hp_max - proj_defs[PROJ_POWER_BEAM + 1].damage
  /\ g_boss.type = BOSS_GOLDEN_TORIZO
  /\ g_boss.active /\ g_boss.vulnerable
  /\ g_boss.invuln_timer = 0
  /\ g_boss.body.pos = e_pool[0].body.pos

\* The boss is running the death sequence of its type.
InDeathSequence(b) == b.active /\ b.ai_state = C3_DeathState(b.type)

\* C20: damaging an inactive or already-dead entity changes nothing:
\* enemy_damage on a pooled enemy whose hp is zero or less leaves the enemy
\* pool unchanged, player_damage on a player with alive = FALSE leaves the
\* player unchanged, and boss_damage on an inactive boss or on a boss in its
\* death sequence leaves the boss unchanged.
C20_DeadIsNoOp ==
  [][/\ (/\ op'.name = "enemy_damage"
          /\ op'.args[1] >= 0 /\ op'.args[1] < e_count
          /\ e_pool[op'.args[1]].hp <= 0) =>
          e_pool' = e_pool
     /\ (op'.name \in {"projectile_update_all", "enemy_update_all"} /\ ~g_player.alive) =>
          g_player'.hp = g_player.hp /\ g_player'.invuln_timer = g_player.invuln_timer
     /\ (op'.name = "boss_damage" /\ (~g_boss.active \/ InDeathSequence(g_boss))) =>
          g_boss' = g_boss
    ]_vars

\* Pool slots holding an enemy that is no longer active.
DeadEnemies == { i \in 0..(e_count - 1) : ~e_pool[i].active }

room_0_0_spawns == << <<1, 64, 148>>, <<1, 192, 148>>, <<3, 128, 48>> >>

\* gameplay_enter with no room loaded: player, camera, pools and boss slot
\* initialised, room (0,0) loaded and its enemies spawned; the room is not
\* the boss room.
gameplay_enter ==
  LET spawn(r, s) == enemy_spawn(r.pool, r.count, s[1], INT_TO_FX(s[2]), INT_TO_FX(s[3]))
      store(e) ==
        [ep |-> e.pool, ec |-> e.count,
         pp |-> projectile_pool_init.pool, pc |-> projectile_pool_init.count,
         boss |-> boss_init, room |-> room_load(room_init, 0, 0),
         player |-> player_init, camera |-> camera_init]
  IN store(spawn(spawn(spawn(enemy_pool_init, room_0_0_spawns[1]),
                       room_0_0_spawns[2]), room_0_0_spawns[3]))

can_fire(p) ==
  p.state \in {"STANDING", "RUNNING", "JUMPING", "SPIN_JUMPING", "FALLING", "CROUCHING"}

\* Beam shot on X; no beam upgrade is in the equipment of the model, so
\* get_beam_type answers the power beam.  Missiles and bombs need ammunition
\* or equipment the player does not have.
gameplay_fire(pool, count, p, in) ==
  IF can_fire(p) /\ input_pressed(in, "X")
  THEN projectile_spawn(pool, count, PROJ_POWER_BEAM, PROJ_OWNER_PLAYER,
                        p.body.pos.x, p.body.pos.y,
                        IF p.facing = DIR_RIGHT THEN INT_TO_FX(4) ELSE -INT_TO_FX(4), 0)
  ELSE [pool |-> pool, count |-> count, ret |-> -1]

\* Keys held during one frame.
GameHeld ==
  { {}, {"LEFT"}, {"RIGHT"}, {"DOWN"}, {"B"}, {"RIGHT", "B"}, {"RIGHT", "Y"},
    {"DOWN", "A"}, {"X"} }

MaxInputTicks == 4
MaxGameTicks == 330
MaxSettleTicks == 40
LowHp == 3
LandTicks == 24
MaxJumpTicks == 3
MaxCorridorTicks == 200

\* The pad of the frame: the keys held now and those not held the frame before.
PadHeld == IF op.name = "init" THEN {} ELSE op.args[1]

\* The pad in the corridor, room (0,1): RIGHT is held throughout; B is
\* held or not in each of the first MaxJumpTicks frames, and from then on
\* the pad stays as it was in the last of them.
CorridorInputs ==
  IF budget.ticks < MaxJumpTicks THEN { {"RIGHT"}, {"RIGHT", "B"} }
  ELSE IF budget.ticks < MaxCorridorTicks THEN { PadHeld }
  ELSE {}

\* Keys are explored during the first MaxInputTicks frames, after which the
\* pad is released: a run with keys is followed for MaxSettleTicks frames, a
\* run with the pad released throughout for MaxGameTicks frames.
FrameInputs ==
  IF g_current_room.width_tiles = 32 THEN CorridorInputs
  ELSE IF budget.ticks < MaxInputTicks THEN GameHeld
  ELSE IF budget.ops = 0 /\ budget.ticks < MaxGameTicks THEN { {} }
  ELSE IF budget.ticks < MaxSettleTicks THEN { {} }
  ELSE {}

\* The hit bookkeeping of a stage that turned player p into player q.
GameBudget(b, p, q) ==
  IF q.hp < p.hp THEN [b EXCEPT !.hits = @ + 1, !.since = 0] ELSE b

\* First part of gameplay_update: the death check, then player_update and
\* weapon firing.  (No door transition is active; START is not pressed; the
\* save tile, the door and the item pickups of the room are out of reach
\* within the frames with input; room (0,0) has no crumble block.)
TickPlayerUpdate ==
  \E held \in FrameInputs :
    LET Fire(r, in) ==
          LET Store(f) ==
                /\ g_player' = r.player
                /\ p_pool' = f.pool
                /\ p_count' = f.count
                /\ op' = Call("player_update", <<held>>, 0, r.log)
                /\ budget' = GameBudget([budget EXCEPT !.ticks = @ + 1,
                                                      !.since = @ + 1,
                                                      !.ops = IF held = {} THEN @ ELSE @ + 1],
                                        g_player, r.player)
                /\ UNCHANGED <<e_pool, e_count, g_boss, g_camera, g_current_room>>
          IN Store(gameplay_fire(p_pool, p_count, r.player, in))
        Update(in) == Fire(player_update(g_current_room, g_player, in), in)
    IN /\ op.name \in {"init", "projectile_update_all"}
       /\ IF g_player.state = "DEATH" /\ g_player.anim.frame_timer = 0
          THEN /\ op' = Call("state_set", <<held>>, 0, <<"STATE_DEATH">>)
               /\ UNCHANGED <<e_pool, e_count, p_pool, p_count, g_boss, g_player,
                              g_camera, g_current_room, budget>>
          ELSE Update([held |-> held, pressed |-> held \ PadHeld])

TickEnemyUpdateAll ==
  LET Store(r) ==
        /\ op.name = "player_update"
        /\ e_pool' = r.pool
        /\ e_count' = r.count
        /\ g_player' = r.player
        /\ op' = Call("enemy_update_all", op.args, e_count - r.count, r.log)
        /\ budget' = GameBudget(budget, g_player, r.player)
        /\ UNCHANGED <<p_pool, p_count, g_boss, g_camera, g_current_room>>
  IN Store(enemy_update_all(g_current_room, e_pool, e_count, g_player))

\* boss_update called right after player_update, ahead of the enemy pool.
TickBossUpdateEarly ==
  LET Store(r) ==
        /\ op.name = "player_update"
        /\ g_boss' = r.boss
        /\ p_pool' = r.pp
        /\ p_count' = r.pc
        /\ g_player' = r.player
        /\ g_camera' = r.camera
        /\ op' = Call("boss_update", op.args, 0, <<>>)
        /\ budget' = GameBudget(budget, g_player, r.player)
        /\ UNCHANGED <<e_pool, e_count, g_current_room>>
  IN Store(boss_update(World(g_boss, p_pool, p_count, g_player, g_camera)))

TickBossUpdate ==
  LET Store(r) ==
        /\ op.name = "enemy_update_all"
        /\ g_boss' = r.boss
        /\ p_pool' = r.pp
        /\ p_count' = r.pc
        /\ g_player' = r.player
        /\ g_camera' = r.camera
        /\ op' = Call("boss_update", op.args, 0, <<>>)
        /\ budget' = GameBudget(budget, g_player, r.player)
        /\ UNCHANGED <<e_pool, e_count, g_current_room>>
  IN Store(boss_update(World(g_boss, p_pool, p_count, g_player, g_camera)))

\* projectile_update_all and the end of the tick: camera_update, which in
\* the one-screen room only counts the shake down.
TickProjectileUpdateAll ==
  LET Store(r) ==
        /\ op.name = "boss_update"
        /\ p_pool' = r.pp
        /\ p_count' = r.pc
        /\ e_pool' = r.ep
        /\ g_boss' = r.boss
        /\ g_camera' = [r.camera EXCEPT !.shake_frames = IF @ > 0 THEN @ - 1 ELSE @]
        /\ g_player' = r.player
        /\ g_current_room' = r.room
        /\ op' = Call("projectile_update_all", op.args, p_count - r.pc, r.log)
        /\ budget' = GameBudget(budget, g_player, r.player)
        /\ UNCHANGED e_count
  IN Store(projectile_update_all(
             ProjUpdateState(p_pool, p_count, e_pool, e_count, g_boss, g_camera,
                             g_player, g_current_room)))

\* One whole frame with the pad released, as a function of the world.
idle_tick(g) ==
  LET shots(r) == [g EXCEPT !.pp = r.pp, !.pc = r.pc, !.ep = r.ep, !.boss = r.boss,
                            !.camera = r.camera, !.player = r.player, !.room = r.room]
      boss(h, r) == shots(projectile_update_all(
                      ProjUpdateState(r.pp, r.pc, h.ep, h.ec, r.boss, r.camera,
                                      r.player, h.room)))
      enemies(h, r) ==
        boss([h EXCEPT !.ep = r.pool, !.ec = r.count],
             boss_update(World(h.boss, h.pp, h.pc, r.player, h.camera)))
      player(r) == enemies(g, enemy_update_all(g.room, g.ep, g.ec, r.player))
  IN player(player_update(g.room, g.player, [held |-> {}, pressed |-> {}]))

RECURSIVE GameAfter(_)
GameAfter(n) == IF n = 0 THEN gameplay_enter ELSE idle_tick(GameAfter(n - 1))

\* Gameplay starts from gameplay_enter or LandTicks idle frames later, when
\* the player has landed; a start is <<idle frames, hp, equipment>>, with
\* hp full or what a run of earlier hits left, and the morph ball picked
\* up or not.
GameStarts ==
  { <<0, PLAYER_START_HP, 0>>, <<LandTicks, PLAYER_START_HP, 0>>,
    <<LandTicks, LowHp, 0>>, <<LandTicks, PLAYER_START_HP, EQUIP_MORPH_BALL>> }

InitGame ==
  \E start \in GameStarts :
    LET Start(g) ==
          /\ e_pool = g.ep
          /\ e_count = g.ec
          /\ p_pool = g.pp
          /\ p_count = g.pc
          /\ g_boss = g.boss
          /\ g_camera = g.camera
          /\ g_current_room = g.room
          /\ g_player = [g.player EXCEPT !.hp = start[2], !.equipment = start[3]]
          /\ op = Call("init", <<{}>>, 0, <<>>)
          /\ budget = ZeroBudget
    IN Start(GameAfter(start[1]))

NextGame ==
  \/ TickPlayerUpdate
  \/ TickEnemyUpdateAll
  \/ TickBossUpdate
  \/ TickProjectileUpdateAll

SpecGame == InitGame /\ [][NextGame]_vars

\* C22: once the player's hp has reached zero the player is in the death
\* state with alive false, and by the time 120 further gameplay ticks have
\* called player_update the death timer has run down to zero (after which
\* gameplay_update requests the death game state).
C22_DeathTimerExpires ==
  (g_player.state = "DEATH" /\ budget.since >= 120) =>
    (~g_player.alive /\ g_player.anim.frame_timer = 0)

C24_KnockbackOnDamage ==
  [][g_player'.hp < g_player.hp =>
       /\ g_player'.body.vel.x \in {KNOCKBACK_VEL_X, -KNOCKBACK_VEL_X}
       /\ g_player'.body.vel.y = -KNOCKBACK_VEL_Y
    ]_vars

\* The last call was a player_update of a living player, whose log holds
\* <<state after the handler, state, ground contact and vertical velocity
\* after post_physics_check, half-height after the handler>>.
PlayerUpdated == op.name = "player_update" /\ Len(op.log) = 5

\* C25: at the end of post_physics_check the state is standing, running or
\* crouching only with ground contact; it is jumping or spin-jumping only
\* with negative vertical velocity and no ground contact; and a player left
\* jumping, spin-jumping or falling by the handler that has ground contact
\* is running when left or right is held and standing otherwise.
C25_PostPhysicsStates ==
  PlayerUpdated =>
    /\ op.log[2] \in {"STANDING", "RUNNING", "CROUCHING"} => op.log[3]
    /\ op.log[2] \in {"JUMPING", "SPIN_JUMPING"} => (op.log[4] < 0 /\ ~op.log[3])
    /\ (op.log[1] \in {"JUMPING", "SPIN_JUMPING", "FALLING"} /\ op.log[3]) =>
         op.log[2] = IF op.args[1] \cap {"LEFT", "RIGHT"} # {} THEN "RUNNING"
                     ELSE "STANDING"

\* A landing with RIGHT held, which ends running.
C25_Witness ==
  /\ PlayerUpdated
  /\ op.log[1] = "FALLING" /\ op.log[3] /\ op.log[2] = "RUNNING"
  /\ "RIGHT" \in op.args[1]
  /\ g_player.state = "RUNNING"

\* The half-height that goes with a player state: 14 px crouching, 4 px as
\* a ball, 20 px otherwise.
HalfHeightOf(state) ==
  IF state = "CROUCHING" THEN INT_TO_FX(14)
  ELSE IF state \in {"MORPHBALL", "SPRING_BALL"} THEN INT_TO_FX(4)
  ELSE INT_TO_FX(20)

\* C26: the player's hitbox half-height is the one of the current state, in
\* every state and also between the state handler and the physics step of a
\* player_update.
C26_HitboxByState ==
  /\ g_player.body.hitbox.half_h = HalfHeightOf(g_player.state)
  /\ PlayerUpdated => op.log[5] = HalfHeightOf(op.log[1])

\* A frame in which the handler crouched (14 px) and the correction pass
\* changed the state again (20 px).
C26_Witness ==
  /\ PlayerUpdated
  /\ op.log[1] = "CROUCHING" /\ op.log[5] = SAMUS_CROUCH_H
  /\ g_player.state = "FALLING" /\ g_player.body.hitbox.half_h = SAMUS_HALF_H

MaxShotTicks == 125

\* Volleys of projectile types, spawned in this order.
ShotVolleys ==
  { <<PROJ_POWER_BEAM>>, <<PROJ_ICE_BEAM>>, <<PROJ_WAVE_BEAM>>, <<PROJ_SPAZER_BEAM>>,
    <<PROJ_PLASMA_BEAM>>, <<PROJ_MISSILE>>, <<PROJ_SUPER_MISSILE>>, <<PROJ_ENEMY_BULLET>>,
    <<PROJ_POWER_BEAM, PROJ_PLASMA_BEAM, PROJ_WAVE_BEAM>>,
    <<PROJ_ENEMY_BULLET, PROJ_MISSILE, PROJ_ICE_BEAM, PROJ_SPAZER_BEAM, PROJ_SUPER_MISSILE>>,
    <<PROJ_BOMB, PROJ_POWER_BEAM>>, <<PROJ_BOMB>>, <<PROJ_POWER_BOMB>>,
    <<PROJ_POWER_BOMB, PROJ_BOMB>> }

\* Where a volley is fired: the muzzle in pixels, the direction, the
\* velocity in pixels per frame handed to projectile_spawn for a bomb
\* (gameplay.c passes 0), the enemies <<enemy_id, x, y>> standing in the
\* line of fire and the boss, if any, <<type, x, y>>.  "right" and "left"
\* fly along the free row y = 100, "left" into the left wall; "gallery" has
\* two Zoomers side by side and a Geemer behind them on the floor row;
\* "boss" has Spore Spawn in the line of fire; "duel" is fired at the
\* player; "bombsite" is next to the player, with a Zoomer in reach of a
\* bomb and a Sidehopper in reach of a power bomb only; "blocks" is under
\* the bomb block of the room, next to a Geemer.
ShotScenes ==
  { [name |-> "right", x |-> 40, y |-> 100, dir |-> 1, push |-> 0, enemies |-> <<>>,
     boss |-> <<>>],
    [name |-> "left", x |-> 40, y |-> 100, dir |-> -1, push |-> 0, enemies |-> <<>>,
     boss |-> <<>>],
    [name |-> "gallery", x |-> 40, y |-> 148, dir |-> 1, push |-> 0,
     enemies |-> << <<ENEMY_ZOOMER, 120, 148>>, <<ENEMY_ZOOMER, 121, 148>>,
                    <<ENEMY_GEEMER, 150, 148>> >>,
     boss |-> <<>>],
    [name |-> "boss", x |-> 40, y |-> 100, dir |-> 1, push |-> 0, enemies |-> <<>>,
     boss |-> <<BOSS_SPORE_SPAWN, 120, 100>>],
    [name |-> "duel", x |-> 440, y |-> 148, dir |-> 1, push |-> 0, enemies |-> <<>>,
     boss |-> <<>>],
    [name |-> "bombsite", x |-> 472, y |-> 148, dir |-> 1, push |-> 0,
     enemies |-> << <<ENEMY_ZOOMER, 466, 148>>, <<ENEMY_SIDEHOPPER, 500, 148>> >>,
     boss |-> <<>>],
    [name |-> "blocks", x |-> 360, y |-> 148, dir |-> 1, push |-> 2,
     enemies |-> << <<ENEMY_GEEMER, 370, 148>> >>, boss |-> <<>>] }

\* The world after room (0,1) was entered (player at the door's spawn point,
\* far from the line of fire), the scene's enemies and boss were spawned in
\* place of the room's own and the volley was fired from the muzzle.
ShotStart(scene, volley) ==
  LET RECURSIVE Enemies(_, _)
      Enemies(r, k) ==
        IF k > Len(scene.enemies) THEN r
        ELSE Enemies(enemy_spawn(r.pool, r.count, scene.enemies[k][1],
                                 INT_TO_FX(scene.enemies[k][2]),
                                 INT_TO_FX(scene.enemies[k][3])), k + 1)
      RECURSIVE Shots(_, _)
      Shots(r, k) ==
        IF k > Len(volley) THEN r
        ELSE Shots(projectile_spawn(r.pool, r.count, volley[k],
                                    IF volley[k] = PROJ_ENEMY_BULLET
                                    THEN PROJ_OWNER_ENEMY ELSE PROJ_OWNER_PLAYER,
                                    INT_TO_FX(scene.x), INT_TO_FX(scene.y),
                                    scene.dir *
                                      (IF volley[k] \in {PROJ_BOMB, PROJ_POWER_BOMB}
                                       THEN INT_TO_FX(scene.push)
                                       ELSE proj_defs[volley[k] + 1].speed), 0), k + 1)
      store(e, sh) ==
        [ep |-> e.pool, ec |-> e.count, pp |-> sh.pool, pc |-> sh.count,
         boss |-> IF scene.boss = <<>> THEN boss_init
                  ELSE boss_spawn(boss_init, scene.boss[1], INT_TO_FX(scene.boss[2]),
                                  INT_TO_FX(scene.boss[3])),
         room |-> EnteredRoom01.room, player |-> EnteredRoom01.player,
         camera |-> camera_init]
  IN store(Enemies(enemy_clear_all, 1), Shots(projectile_clear_all, 1))

\* op.args of the start holds the scene's name and the volley.
InitShots ==
  \E scene \in ShotScenes, volley \in ShotVolleys :
    LET Start(g) ==
          /\ e_pool = g.ep
          /\ e_count = g.ec
          /\ p_pool = g.pp
          /\ p_count = g.pc
          /\ g_boss = g.boss
          /\ g_camera = g.camera
          /\ g_current_room = g.room
          /\ g_player = g.player
          /\ op = Call("init", <<scene.name, volley>>, 0, <<>>)
          /\ budget = ZeroBudget
    IN Start(ShotStart(scene, volley))

\* projectile_update_all, frame after frame; budget.ticks counts the calls.
ShotsUpdateAll ==
  LET Store(r) ==
        /\ budget.ticks < MaxShotTicks
        /\ p_pool' = r.pp
        /\ p_count' = r.pc
        /\ e_pool' = r.ep
        /\ g_boss' = r.boss
        /\ g_camera' = r.camera
        /\ g_player' = r.player
        /\ g_current_room' = r.room
        /\ op' = Call("projectile_update_all", op.args, p_count - r.pc, r.log)
        /\ budget' = [budget EXCEPT !.ticks = @ + 1]
        /\ UNCHANGED e_count
  IN Store(projectile_update_all(
             ProjUpdateState(p_pool, p_count, e_pool, e_count, g_boss, g_camera,
                             g_player, g_current_room)))

NextShots == ShotsUpdateAll

SpecShots == InitShots /\ [][NextShots]_vars

\* The main loop calls the update once per frame: a frame is the step that
\* advances budget.ticks, which under SpecShots only ShotsUpdateAll takes and
\* which is enabled exactly when ShotsUpdateAll is.
ShotsFrame == budget.ticks < MaxShotTicks /\ budget' = [budget EXCEPT !.ticks = @ + 1]

FairShots == SpecShots /\ WF_budget(ShotsFrame)

\* The non-bomb projectiles of the pool, by slot.
FlyingShots ==
  { i \in 0..(p_count - 1) : p_pool[i].type \notin {PROJ_BOMB, PROJ_POWER_BOMB} }

\* Projectile p after the movement step of its update.
ShotMoved(p) == [p EXCEPT !.pos.x = @ + p.vel.x, !.pos.y = @ + p.vel.y]

\* Projectile p is still in the pool after the step, one frame older.  (The
\* types of a volley are distinct.)
ShotSurvives(p) ==
  \E j \in 0..(p_count' - 1) :
    p_pool'[j] = [ShotMoved(p) EXCEPT !.lifetime = p.lifetime - 1]

ShotGone(p) == \A j \in 0..(p_count' - 1) : p_pool'[j].type # p.type

\* Updates after which a projectile of the type is gone at the latest.
ShotDeadline(type) ==
  CASE type \in {PROJ_POWER_BEAM, PROJ_ICE_BEAM, PROJ_SPAZER_BEAM, PROJ_PLASMA_BEAM} -> 30
    [] type = PROJ_WAVE_BEAM -> 45
    [] type \in {PROJ_MISSILE, PROJ_SUPER_MISSILE} -> 60
    [] type = PROJ_ENEMY_BULLET -> 120

\* C28: in every projectile_update_all a non-bomb projectile either leaves
\* the pool or stays, moved by its velocity and with its lifetime one lower
\* and still positive; a projectile in the pool after n updates has
\* lifetime 30, 45, 60 or 120 (by type) minus n, so none is left after 120
\* updates; and with the update called every frame and no spawn the pool
\* eventually holds no non-bomb projectile, for good.
C28_LifetimeExpiry ==
  /\ [][/\ \A i \in FlyingShots :
             \/ ShotGone(p_pool[i])
             \/ ShotSurvives(p_pool[i]) /\ p_pool[i].lifetime > 1
        /\ \A j \in 0..(p_count' - 1) :
             p_pool'[j].type \notin {PROJ_BOMB, PROJ_POWER_BOMB} =>
               /\ p_pool'[j].lifetime = ShotDeadline(p_pool'[j].type) - budget'.ticks
               /\ p_pool'[j].lifetime >= 1
        /\ budget'.ticks >= 120 =>
             \A j \in 0..(p_count' - 1) : p_pool'[j].type \in {PROJ_BOMB, PROJ_POWER_BOMB}
       ]_vars
  /\ <>[](FlyingShots = {})

\* The enemy bullet flying along the free row, removed by its 120th update.
C28_Witness ==
  /\ op.name = "projectile_update_all" /\ op.args = <<"right", <<PROJ_ENEMY_BULLET>> >>
  /\ budget.ticks = 120 /\ op.ret = 1 /\ p_count = 0

\* The tile under the centre of projectile p after its movement step.
ShotTile(p) ==
  room_get_collision(g_current_room,
                     FX_TO_INT(ShotMoved(p).pos.x) \div TILE_SIZE,
                     FX_TO_INT(ShotMoved(p).pos.y) \div TILE_SIZE)

\* The update of p gets as far as entity collision: p neither expires nor
\* is stopped by a tile.
ShotReaches(p) ==
  /\ p.lifetime # 1
  /\ \/ proj_defs[p.type + 1].wall_pass
     \/ ~tile_is_solid(ShotTile(p)) /\ ShotTile(p) # COLL_SPECIAL_SHOT

HitsEnemy(p, e) ==
  aabb_overlap(ShotMoved(p).pos, p.hitbox, e_pool[e].body.pos, e_pool[e].body.hitbox)

HitsBoss(p) ==
  /\ boss_is_active(g_boss)
  /\ aabb_overlap(ShotMoved(p).pos, p.hitbox, g_boss.body.pos, g_boss.body.hitbox)

HitsPlayer(p) ==
  aabb_overlap(ShotMoved(p).pos, p.hitbox, g_player.body.pos, g_player.body.hitbox)

\* The enemies player projectile p overlaps, and the entity test of p as a
\* whole.
EnemiesHit(p) == { e \in 0..(enemy_get_count(e_count) - 1) : HitsEnemy(p, e) }

EntityHit(p) ==
  IF p.owner = PROJ_OWNER_PLAYER THEN EnemiesHit(p) # {} \/ HitsBoss(p)
  ELSE HitsPlayer(p)

\* hp of the enemies after a step in which projectile p damaged exactly the
\* enemies of set hit.
EnemyHpAfter(p, hit) ==
  \A e \in 0..(enemy_get_count(e_count) - 1) :
    e_pool'[e].hp = IF e \in hit THEN S16(e_pool[e].hp - p.damage) ELSE e_pool[e].hp

SetMax(S) == CHOOSE x \in S : \A y \in S : y <= x

\* C29 (as stated): a projectile that hits an entity is removed exactly when
\* its type is not flagged pass-through.
C29_PassThroughEveryHit ==
  [][\A i \in FlyingShots :
       ShotReaches(p_pool[i]) /\ EntityHit(p_pool[i]) =>
         (ShotGone(p_pool[i]) <=> ~proj_defs[p_pool[i].type + 1].enemy_pass)
    ]_vars

\* C29 (amended): the pass-through flag counts for enemy hits only.  A
\* player projectile without the flag is removed by the first enemy it
\* overlaps (highest slot first) and damages that enemy alone; the plasma
\* beam damages every enemy it overlaps in the update and stays in the pool
\* unless it also overlaps the active boss; a hit on the active boss removes
\* the projectile whatever its type; an enemy projectile that overlaps the
\* player is removed; a projectile that reaches entity collision and hits
\* nothing stays.
C29_PassThroughEnemies ==
  [][\A i \in FlyingShots :
       LET p == p_pool[i]
           pass == proj_defs[p.type + 1].enemy_pass
           alone == p_count = 1
       IN ShotReaches(p) =>
            IF p.owner # PROJ_OWNER_PLAYER
            THEN IF HitsPlayer(p) THEN ShotGone(p) ELSE ShotSurvives(p)
            ELSE IF EnemiesHit(p) # {} /\ ~pass
            THEN ShotGone(p) /\ (alone => EnemyHpAfter(p, {SetMax(EnemiesHit(p))}))
            ELSE /\ alone => EnemyHpAfter(p, EnemiesHit(p))
                 /\ IF HitsBoss(p) THEN ShotGone(p) ELSE ShotSurvives(p)
    ]_vars

\* The plasma beam has just damaged both Zoomers in one update (neither had
\* been hit before) and is still in the pool.
C29_Witness ==
  /\ op.name = "projectile_update_all" /\ op.args = <<"gallery", <<PROJ_PLASMA_BEAM>> >>
  /\ p_count = 1 /\ p_pool[0].type = PROJ_PLASMA_BEAM /\ p_pool[0].active
  /\ \A e \in {0, 1} :
       e_pool[e].hp = S16(enemy_defs[ENEMY_ZOOMER + 1].hp - proj_defs[PROJ_PLASMA_BEAM + 1].damage)
  /\ e_pool[2].hp = enemy_defs[ENEMY_GEEMER + 1].hp

\* C30: the wave beam is removed by an update only if its lifetime runs out
\* in it or it overlaps an entity, whatever tile it is in; every other
\* non-bomb projectile leaves the pool in the update that moves its centre
\* into a solid tile (or out of the room, which reads as solid).
C30_WaveBeamPassesWalls ==
  [][\A i \in FlyingShots :
       LET p == p_pool[i]
       IN IF p.type = PROJ_WAVE_BEAM
          THEN p.lifetime # 1 /\ ~EntityHit(p) => ShotSurvives(p)
          ELSE tile_is_solid(ShotTile(p)) => ShotGone(p)
    ]_vars

\* The wave beam in flight with its centre inside the left wall or beyond
\* it.
C30_Witness ==
  /\ op.name = "projectile_update_all" /\ op.args = <<"left", <<PROJ_WAVE_BEAM>> >>
  /\ p_count = 1 /\ p_pool[0].type = PROJ_WAVE_BEAM /\ p_pool[0].active
  /\ tile_is_solid(room_get_collision(g_current_room,
                                      FX_TO_INT(p_pool[0].pos.x) \div TILE_SIZE,
                                      FX_TO_INT(p_pool[0].pos.y) \div TILE_SIZE))

\* The scene the run started from.
ShotScene == CHOOSE scene \in ShotScenes : scene.name = op.args[1]

\* The bombs of the pool, by slot.
Bombs ==
  { i \in 0..(p_count - 1) : p_pool[i].type \in {PROJ_BOMB, PROJ_POWER_BOMB} }

\* The effects of the explosion of bomb p, alone in the pool, on the
\* enemies, the room and the player.
BlastApplied(p) ==
  LET def == proj_defs[p.type + 1]
      blast == [half_w |-> def.half_w, half_h |-> def.half_h]
      ctx == FX_TO_INT(p.pos.x) \div TILE_SIZE
      cty == FX_TO_INT(p.pos.y) \div TILE_SIZE
      r0 == FX_TO_INT(def.half_w) \div TILE_SIZE
      radius == IF r0 < 1 THEN 1 ELSE r0
      near == /\ Abs(p.pos.x - g_player.body.pos.x) < INT_TO_FX(16)
              /\ Abs(p.pos.y - g_player.body.pos.y) < INT_TO_FX(16)
  IN /\ \A e \in 0..(enemy_get_count(e_count) - 1) :
          e_pool'[e] =
            IF aabb_overlap(p.pos, blast, e_pool[e].body.pos, e_pool[e].body.hitbox)
            THEN [e_pool[e] EXCEPT
                    !.hp = S16(@ - def.damage),
                    !.active = IF S16(e_pool[e].hp - def.damage) <= 0 THEN FALSE ELSE @]
            ELSE e_pool[e]
     /\ \A tx \in 0..(g_current_room.width_tiles - 1),
           ty \in 0..(g_current_room.height_tiles - 1) :
          room_get_collision(g_current_room', tx, ty) =
            IF /\ room_get_collision(g_current_room, tx, ty) = COLL_SPECIAL_BOMB
               /\ Abs(tx - ctx) <= radius /\ Abs(ty - cty) <= radius
            THEN COLL_AIR
            ELSE room_get_collision(g_current_room, tx, ty)
     /\ g_player' = [g_player EXCEPT !.body.vel.y = IF near THEN -BOMB_JUMP_VEL ELSE @]

\* C31: a bomb in the pool sits where it was spawned, whatever velocity it
\* was given, with its timer at 87 minus the number of updates so far; the
\* update that finds the timer at 1 (the 87th) removes it and, for a bomb
\* alone in the pool, applies blast damage, block breaking and the bomb
\* jump; every other update leaves it in the pool with the timer one lower
\* and, for a bomb alone in the pool, changes nothing else; and once the
\* pool is empty no update changes the enemies, the room or the player.
C31_BombExplodesOnce ==
  [][/\ \A i \in Bombs :
          LET p == p_pool[i]
          IN /\ p.pos = [x |-> INT_TO_FX(ShotScene.x), y |-> INT_TO_FX(ShotScene.y)]
             /\ p.timer = BOMB_TIMER_FRAMES - budget.ticks
             /\ IF p.timer = 1
                THEN ShotGone(p) /\ (p_count = 1 => BlastApplied(p))
                ELSE /\ \E j \in 0..(p_count' - 1) : p_pool'[j] = [p EXCEPT !.timer = @ - 1]
                     /\ p_count = 1 => UNCHANGED <<e_pool, g_current_room, g_player>>
     /\ p_count = 0 => UNCHANGED <<e_pool, g_current_room, g_player, p_count>>
    ]_vars

\* The bomb spawned under the bomb block with a velocity has just exploded
\* in place, on the 87th update: the block is air and the Geemer next to it
\* has lost the blast damage.
C31_Witness ==
  /\ op.name = "projectile_update_all" /\ op.args = <<"blocks", <<PROJ_BOMB>> >>
  /\ budget.ticks = BOMB_TIMER_FRAMES /\ op.ret = 1 /\ p_count = 0
  /\ room_get_collision(g_current_room, 22, 8) = COLL_AIR
  /\ e_pool[0].hp = enemy_defs[ENEMY_GEEMER + 1].hp - proj_defs[PROJ_BOMB + 1].damage

(***************************************************************************)
(* Slot reuse: spawn, remove and clear_all in sequence (enemy.c,            *)
(* projectile.c)                                                           *)
(***************************************************************************)
MaxSlotOps == 3

\* Pool sizes at the start, the full pool included.
SlotEnemyPrefills == {0, 2, MAX_ENEMIES - 1, MAX_ENEMIES}
SlotProjPrefills == {0, MAX_PROJECTILES - 1, MAX_PROJECTILES}

InitSlots ==
  /\ \E n \in SlotEnemyPrefills :
       /\ e_pool = PrefillEnemies(n).pool
       /\ e_count = PrefillEnemies(n).count
  /\ \E n \in SlotProjPrefills :
       /\ p_pool = PrefillProjectiles(n).pool
       /\ p_count = PrefillProjectiles(n).count
  /\ g_boss = boss_init
  /\ g_camera = camera_init
  /\ g_player = player_init
  /\ g_current_room = load_room_0_0
  /\ op = Call("init", <<>>, 0, <<>>)
  /\ budget = ZeroBudget

\* op.log is the history of the calls: <<name, value, count before>>, the
\* value being the return value of a spawn, the index of a remove, 0 for
\* clear_all.
SlotCall(name, value, before) ==
  /\ budget.ops < MaxSlotOps
  /\ budget' = [budget EXCEPT !.ops = @ + 1]
  /\ op' = Call(name, <<value>>, value, Append(op.log, <<name, value, before>>))
  /\ UNCHANGED <<g_boss, g_camera, g_player, g_current_room>>

SlotEnemySpawn ==
  \E type \in {ENEMY_NONE, ENEMY_ZOOMER, ENEMY_ZEBESIAN} :
    LET Store(r) ==
          /\ e_pool' = r.pool
          /\ e_count' = r.count
          /\ SlotCall("enemy_spawn", r.ret, e_count)
          /\ UNCHANGED <<p_pool, p_count>>
    IN Store(enemy_spawn(e_pool, e_count, type, SpawnPos.x, SpawnPos.y))

\* The index is 0, the last slot or what the last call returned.
SlotEnemyRemove ==
  \E index \in {0, e_count - 1, op.ret} :
    LET Store(r) ==
          /\ e_pool' = r.pool
          /\ e_count' = r.count
          /\ SlotCall("enemy_remove", index, e_count)
          /\ UNCHANGED <<p_pool, p_count>>
    IN Store(enemy_remove(e_pool, e_count, index))

SlotEnemyClearAll ==
  /\ e_pool' = enemy_clear_all.pool
  /\ e_count' = enemy_clear_all.count
  /\ SlotCall("enemy_clear_all", 0, e_count)
  /\ UNCHANGED <<p_pool, p_count>>

SlotProjectileSpawn ==
  \E type \in {PROJ_NONE, PROJ_POWER_BEAM, PROJ_BOMB} :
    LET Store(r) ==
          /\ p_pool' = r.pool
          /\ p_count' = r.count
          /\ SlotCall("projectile_spawn", r.ret, p_count)
          /\ UNCHANGED <<e_pool, e_count>>
    IN Store(projectile_spawn(p_pool, p_count, type, PROJ_OWNER_PLAYER,
                              SpawnPos.x, SpawnPos.y, INT_TO_FX(4), 0))

SlotProjectileRemove ==
  \E index \in {0, p_count - 1, op.ret} :
    LET Store(r) ==
          /\ p_pool' = r.pool
          /\ p_count' = r.count
          /\ SlotCall("projectile_remove", index, p_count)
          /\ UNCHANGED <<e_pool, e_count>>
    IN Store(projectile_remove(p_pool, p_count, index))

SlotProjectileClearAll ==
  /\ p_pool' = projectile_clear_all.pool
  /\ p_count' = projectile_clear_all.count
  /\ SlotCall("projectile_clear_all", 0, p_count)
  /\ UNCHANGED <<e_pool, e_count>>

NextSlots ==
  \/ SlotEnemySpawn
  \/ SlotEnemyRemove
  \/ SlotEnemyClearAll
  \/ SlotProjectileSpawn
  \/ SlotProjectileRemove
  \/ SlotProjectileClearAll

SpecSlots == InitSlots /\ [][NextSlots]_vars

\* Call k of the history is a successful spawn into the pool named by
\* prefix ("enemy" or "projectile").
SpawnedAt(k, prefix) ==
  /\ k \in DOMAIN op.log
  /\ op.log[k][1] = prefix \o "_spawn"
  /\ op.log[k][2] >= 0

\* C32: every successful spawn returned the active_count held before the
\* call; a successful spawn right after clear_all returned 0; a successful
\* spawn that follows a successful spawn and the removal of the entity it
\* returned returned the same index; and the counts stay within capacity.
C32_SpawnReturnsCount ==
  /\ e_count \in 0..MAX_ENEMIES /\ p_count \in 0..MAX_PROJECTILES
  /\ \A prefix \in {"enemy", "projectile"} :
       \A k \in DOMAIN op.log :
         SpawnedAt(k, prefix) =>
           /\ op.log[k][2] = op.log[k][3]
           /\ k > 1 /\ op.log[k - 1][1] = prefix \o "_clear_all" => op.log[k][2] = 0
           /\ /\ SpawnedAt(k - 2, prefix)
              /\ op.log[k - 1][1] = prefix \o "_remove"
              /\ op.log[k - 1][2] = op.log[k - 2][2]
              => op.log[k][2] = op.log[k - 2][2]

\* The last free enemy slot was filled, freed and filled again: the same
\* index both times, the pool at capacity.
C32_Witness ==
  /\ Len(op.log) = 3
  /\ op.log[1][1] = "enemy_spawn" /\ op.log[1][2] = MAX_ENEMIES - 1
  /\ op.log[2][1] = "enemy_remove" /\ op.log[2][2] = MAX_ENEMIES - 1
  /\ op.log[3][1] = "enemy_spawn" /\ op.log[3][2] = MAX_ENEMIES - 1
  /\ e_count = MAX_ENEMIES

(***************************************************************************)
(* Ridley's attack cadence (boss.c)                                        *)
(***************************************************************************)
MaxRidleyTicks == 100
MaxRidleyHits == 1
MaxRidleyHitTicks == 18

\* Damage of the hit Ridley took before the run starts (0: none), chosen
\* around the percentages 75, 50 and 25 of RI_HP, and of the hits during
\* the run.
RidleyWounds ==
  {0, 4320, 4321, 4400, 4499, 4500, 8820, 8821, 9000, 13320, 13321, 13500, 17000, 17999}
RidleyDamages == {1, 180, 4500}

RidleySpawned ==
  World(boss_spawn(boss_init, BOSS_RIDLEY, BossSpawnPos.x, BossSpawnPos.y),
        projectile_pool_init.pool, projectile_pool_init.count, player_init, camera_init)

InitRidley ==
  \E d \in RidleyWounds :
    LET Start(w) ==
          /\ g_boss = w.boss
          /\ p_pool = w.pp
          /\ p_count = w.pc
          /\ g_player = w.player
          /\ g_camera = w.camera
          /\ e_pool = enemy_pool_init.pool
          /\ e_count = enemy_pool_init.count
          /\ g_current_room = load_room_0_0
          /\ op = Call("init", <<d>>, 0, <<>>)
          /\ budget = ZeroBudget
    IN Start(IF d = 0 THEN RidleySpawned ELSE boss_damage(RidleySpawned, d))

RidleyUpdate ==
  LET Store(r) ==
        /\ budget.ticks < MaxRidleyTicks
        /\ g_boss' = r.boss
        /\ p_pool' = r.pp
        /\ p_count' = r.pc
        /\ g_player' = r.player
        /\ g_camera' = r.camera
        /\ op' = Call("boss_update", <<>>, 0, <<>>)
        /\ budget' = [budget EXCEPT !.ticks = @ + 1]
        /\ UNCHANGED <<e_pool, e_count, g_current_room>>
  IN Store(boss_update(World(g_boss, p_pool, p_count, g_player, g_camera)))

\* An accepted hit, early in the run.
RidleyDamage ==
  \E damage \in RidleyDamages :
    LET Store(r) ==
          /\ budget.hits < MaxRidleyHits
          /\ budget.ticks < MaxRidleyHitTicks
          /\ r.boss # g_boss
          /\ g_boss' = r.boss
          /\ g_camera' = r.camera
          /\ op' = Call("boss_damage", <<damage>>, 1, <<>>)
          /\ budget' = [budget EXCEPT !.hits = @ + 1]
          /\ UNCHANGED <<e_pool, e_count, p_pool, p_count, g_player, g_current_room>>
    IN Store(boss_damage(World(g_boss, p_pool, p_count, g_player, g_camera), damage))

NextRidley ==
  \/ RidleyUpdate
  \/ RidleyDamage

SpecRidley == InitRidley /\ [][NextRidley]_vars

\* The interval by remaining hp fraction: 90 above 75%, 67 above 50%, 54
\* above 25%, 30 at or below 25%.
IntervalByFraction(b) ==
  IF b.hp * 4 > b.hp_max * 3 THEN 90
  ELSE IF b.hp * 2 > b.hp_max THEN 67
  ELSE IF b.hp * 4 > b.hp_max THEN 54
  ELSE 30

\* The interval by the whole-number percentage of hp (the fraction times
\* 100, rounded down): 90 from 76 up, 67 from 51, 54 from 26, 30 below.
IntervalByPercent(b) ==
  LET pct == (b.hp * 100) \div b.hp_max
  IN IF pct >= 76 THEN 90
     ELSE IF pct >= 51 THEN 67
     ELSE IF pct >= 26 THEN 54
     ELSE 30

\* A flying Ridley starts an attack in this step exactly when it has flown
\* for the interval or more, and a hit on a flying Ridley never lengthens
\* the interval (before: the interval of the current state, after: that of
\* the next).
RidleyCadence(before, after) ==
  /\ g_boss.type = BOSS_RIDLEY /\ g_boss.active /\ g_boss.ai_state = RI_FLY
     /\ op'.name = "boss_update"
     => (g_boss'.ai_state # RI_FLY <=> g_boss.ai_timer + 1 >= before)
  /\ g_boss.ai_state = RI_FLY /\ g_boss'.ai_state = RI_FLY /\ op'.name = "boss_damage"
     => /\ g_boss'.hp < g_boss.hp
        /\ after <= before

SqrtInputs ==
  {-2147483647, -FX_ONE, -1, 0, 2147483647}
    \cup 1..24
    \cup { INT_TO_FX(n) : n \in 1..32 }
    \cup UNION { {2^k - 1, 2^k, 2^k + 1} : k \in 5..30 }

InitSqrt ==
  /\ e_pool = enemy_pool_init.pool
  /\ e_count = enemy_pool_init.count
  /\ p_pool = projectile_pool_init.pool
  /\ p_count = projectile_pool_init.count
  /\ g_boss = boss_init
  /\ g_camera = camera_init
  /\ g_player = player_init
  /\ g_current_room = room_init
  /\ budget = ZeroBudget
  /\ \E a \in SqrtInputs : op = Call("init", <<a>>, 0, <<>>)

\* op.ret is the value returned, op.log the rounds of the loop and whether
\* it ended by a break.
FxSqrt ==
  LET Store(r) ==
        /\ op.name = "init"
        /\ op' = Call("fx_sqrt", op.args, r.guess, <<r.rounds, r.broke>>)
        /\ UNCHANGED <<e_pool, e_count, p_pool, p_count, g_boss, g_camera, g_player,
                       g_current_room, budget>>
  IN Store(fx_sqrt(op.args[1]))

NextSqrt == FxSqrt

SpecSqrt == InitSqrt /\ [][NextSqrt]_vars

\* C34: fx_sqrt(a) is 0 for a <= 0; for a > 0 the loop ends by a break
\* within 16 rounds and the result r is the integer square root of
\* a << 16: r * r <= a << 16 < (r + 1) * (r + 1), written with quotients
\* (r <= (a << 16) / r and (a << 16) / (r + 1) <= r).
C34_SqrtIsIntegerRoot ==
  op.name = "fx_sqrt" =>
    LET a == op.args[1]
        r == op.ret
    IN IF a <= 0 THEN r = 0
       ELSE /\ r > 0
            /\ op.log[1] <= 16 /\ op.log[2]
            /\ DivShift(a, r, FX_SHIFT).q >= r
            /\ DivShift(a, r + 1, FX_SHIFT).q <= r

\* fx_sqrt(4.0) has returned 2.0.
C34_Witness ==
  /\ op.name = "fx_sqrt" /\ op.args = <<INT_TO_FX(4)>>
  /\ op.ret = INT_TO_FX(2) /\ op.log[2]

\* C35: a player_update that finds a living player standing on the ground
\* with DOWN alone held leaves the player crouching with ground contact,
\* and a player_update that finds the player crouching with DOWN alone held
\* leaves it crouching.
C35_CrouchHolds ==
  [][/\ op'.name = "player_update" /\ op'.args[1] = {"DOWN"}
     /\ g_player.alive /\ g_player.body.contact.on_ground
     /\ g_player.state \in {"STANDING", "CROUCHING"}
     => g_player'.state = "CROUCHING" /\ g_player'.body.contact.on_ground
    ]_vars

\* C36: an enemy that a projectile_update_all finds alive and leaves dead
\* took its last damage while still alive: adding back the damage of some
\* projectile of the pool gives a positive hp.
C36_DeadEnemiesUntouched ==
  [][\A e \in 0..(enemy_get_count(e_count) - 1) :
       /\ op'.name = "projectile_update_all"
       /\ e_pool[e].active /\ e_pool[e].hp > 0 /\ e_pool'[e].hp <= 0
       => \E i \in 0..(p_count - 1) : e_pool'[e].hp + p_pool[i].damage > 0
    ]_vars

(***************************************************************************)
(* The corridor specification: gameplay ticks in room (0,1), entered from  *)
(* room (0,0) through its right door, whose spawn point is (32, 148).      *)
(***************************************************************************)
\* The player runs and jumps to the right for MaxCorridorTicks frames, over
\* the platform at tiles (6..10, 8) and down onto the spike row at tiles
\* (12..16, 9).  The doors at columns 0 and 31 and the items behind the shot
\* blocks stay out of reach.  No code writes contact.on_hazard or
\* contact.hazard_type: physics_update_body clears the contact record and
\* sets the ground, ceiling and wall flags only.
InitCorridor ==
  LET Start(g) ==
        /\ e_pool = g.ep
        /\ e_count = g.ec
        /\ p_pool = g.pp
        /\ p_count = g.pc
        /\ g_boss = g.boss
        /\ g_camera = g.camera
        /\ g_current_room = g.room
        /\ g_player = g.player
        /\ op = Call("init", <<{}>>, 0, <<>>)
        /\ budget = ZeroBudget
  IN Start(update_door_transition_load(GameAfter(LandTicks).player, 32, 148))

SpecCorridor == InitCorridor /\ [][NextGame]_vars

\* The tiles of the given collision type that the body overlaps.
TouchedTiles(room, body, type) ==
  LET in(c) == { t \in (c.l..c.r) \X (c.t..c.b) :
                   room_get_collision(room, t[1], t[2]) = type }
  IN in(BodyTiles(body))

\* The player_update call of a living player who is not invulnerable when
\* the hazard step runs.
HazardChecked ==
  /\ op'.name = "player_update"
  /\ Len(op'.log) = 5
  /\ g_player.invuln_timer = 0

\* C37: when the body touches a spike tile after the physics step of
\* player_update and the player is not invulnerable, the player loses 60 hp
\* (dying at 0) and is bounced upwards; when it touches a lava tile, the
\* environment becomes lava and the player loses 10 hp.
C37_HazardResponse ==
  [][/\ HazardChecked
        /\ TouchedTiles(g_current_room, g_player'.body, COLL_HAZARD_SPIKE) # {}
        => /\ g_player'.hp = (IF g_player.hp > 60 THEN g_player.hp - 60 ELSE 0)
           /\ g_player'.body.vel.y = -KNOCKBACK_VEL_Y
     /\ HazardChecked
        /\ TouchedTiles(g_current_room, g_player'.body, COLL_HAZARD_LAVA) # {}
        => /\ g_player'.hp = (IF g_player.hp > 10 THEN g_player.hp - 10 ELSE 0)
           /\ g_player'.body.env = ENV_LAVA
    ]_vars

(***************************************************************************)
(* The tile specification: one tile of room (0,0) holds any collision      *)
(* byte, and the solid-tile tests of projectile.c and physics.c are        *)
(* applied to it.                                                          *)
(***************************************************************************)
\* Every value of the uint8_t collision byte.
TileValues == 0..255

\* The tile written, in open air above the platform of room (0,0).
ProbeTile == <<7, 3>>

InitTiles ==
  \E v \in TileValues :
    /\ e_pool = enemy_pool_init.pool
    /\ e_count = 0
    /\ p_pool = projectile_pool_init.pool
    /\ p_count = 0
    /\ g_boss = boss_init
    /\ g_player = player_init
    /\ g_camera = camera_init
    /\ g_current_room = room_set_collision(load_room_0_0, ProbeTile[1], ProbeTile[2], v)
    /\ op = Call("room_set_collision", <<ProbeTile[1], ProbeTile[2], v>>, 0, <<>>)
    /\ budget = ZeroBudget

\* The test of projectile_update_all on the tile under a projectile.
TileIsSolid ==
  LET Store(coll) ==
        /\ op' = Call("tile_is_solid", <<coll>>, tile_is_solid(coll), <<>>)
        /\ UNCHANGED <<e_pool, e_count, p_pool, p_count, g_boss, g_player, g_camera,
                       g_current_room, budget>>
  IN Store(room_get_collision(g_current_room, ProbeTile[1], ProbeTile[2]))

\* The test of resolve_horizontal on a column range that is this tile.
ColHasSolid ==
  /\ op' = Call("col_has_solid", <<ProbeTile[1], ProbeTile[2], ProbeTile[2]>>,
                col_has_solid(g_current_room, ProbeTile[1], ProbeTile[2], ProbeTile[2]),
                <<>>)
  /\ UNCHANGED <<e_pool, e_count, p_pool, p_count, g_boss, g_player, g_camera,
                 g_current_room, budget>>

\* The test of resolve_vertical on a row range that is this tile.
RowHasSolid ==
  /\ op' = Call("row_has_solid", <<ProbeTile[1], ProbeTile[1], ProbeTile[2]>>,
                row_has_solid(g_current_room, ProbeTile[1], ProbeTile[1], ProbeTile[2]),
                <<>>)
  /\ UNCHANGED <<e_pool, e_count, p_pool, p_count, g_boss, g_player, g_camera,
                 g_current_room, budget>>

NextTiles ==
  \/ TileIsSolid
  \/ ColHasSolid
  \/ RowHasSolid

SpecTiles == InitTiles /\ [][NextTiles]_vars

\* C38: for every collision byte the projectile test and the physics tests
\* agree: a projectile is stopped by the tile exactly when a body is
\* blocked by it, horizontally and vertically.
C38_SameSolidTest ==
  op.name = "tile_is_solid"
  => /\ op.ret = row_has_solid(g_current_room, ProbeTile[1], ProbeTile[1], ProbeTile[2])
     /\ op.ret = col_has_solid(g_current_room, ProbeTile[1], ProbeTile[2], ProbeTile[2])

(***************************************************************************)
(* The Spore Spawn specification: the boss chamber, room (0,3), entered    *)
(* from room (0,2), with boss_update and boss_damage calls.                *)
(***************************************************************************)
MaxSporeHits == 1
MaxSporeShots == 2

\* Collision grid built by load_room_0_3: shell, ceiling and the door
\* opening punched into the left wall.
Room03Cell(x, y) ==
  LET w == 16
      h == 12
  IN IF x = 0 /\ y >= 7 /\ y < 7 + 3 THEN COLL_AIR
     ELSE IF y = 0 THEN COLL_SOLID
     ELSE IF y >= h - 2 THEN COLL_SOLID
     ELSE IF x = 0 \/ x = w - 1 THEN COLL_SOLID
     ELSE COLL_AIR

load_room_0_3 ==
  [loaded |-> TRUE, width_tiles |-> 16, height_tiles |-> 12,
   collision |-> [idx \in 0..(16 * 12 - 1) |-> Room03Cell(idx % 16, idx \div 16)]]

\* Damage of a hit: one that Spore Spawn survives three times, and one that
\* kills it at full hp.
SporeDamages == {300, SS_HP}

\* boss_update calls from the one that closes the core to the one that opens
\* it again: close, ascend, swing, descend and open.
SporeGap ==
  SS_CLOSE_FRAMES + SS_DESCEND_DIST \div SS_ASCEND_SPEED + SS_SWING_FRAMES
    + SS_DESCEND_DIST \div SS_DESCEND_SPEED + SS_OPEN_FRAMES

\* The TRANS_LOAD step of the door transition into room (0,3): the player
\* at the spawn point of door 1 of room (0,2), Spore Spawn at (128, 48).
InitSpore ==
  /\ e_pool = enemy_clear_all.pool
  /\ e_count = enemy_clear_all.count
  /\ p_pool = projectile_clear_all.pool
  /\ p_count = projectile_clear_all.count
  /\ g_boss = boss_spawn(boss_init, BOSS_SPORE_SPAWN, INT_TO_FX(128), INT_TO_FX(48))
  /\ g_player = [GameAfter(LandTicks).player
                   EXCEPT !.body.pos = [x |-> INT_TO_FX(32), y |-> INT_TO_FX(140)],
                          !.body.vel = [x |-> 0, y |-> 0]]
  /\ g_camera = camera_init
  /\ g_current_room = load_room_0_3
  /\ op = Call("boss_spawn", <<BOSS_SPORE_SPAWN>>, 0, <<>>)
  /\ budget = ZeroBudget

\* boss_update.  budget.since counts the calls since the boss was last
\* vulnerable (capped above SporeGap); budget.ticks is the parity of the
\* number of calls.
SporeUpdate ==
  LET Store(r) ==
        /\ g_boss' = r.boss
        /\ p_pool' = r.pp
        /\ p_count' = r.pc
        /\ g_player' = r.player
        /\ g_camera' = r.camera
        /\ op' = Call("boss_update", <<>>, 0, <<g_boss.ai_state>>)
        /\ budget' = [budget EXCEPT !.ticks = 1 - @,
                                    !.since = IF r.boss.vulnerable THEN 0
                                              ELSE IF @ > SporeGap THEN @ ELSE @ + 1]
        /\ UNCHANGED <<e_pool, e_count, g_current_room>>
  IN Store(boss_update(World(g_boss, p_pool, p_count, g_player, g_camera)))

\* boss_damage; accepted hits are explored up to MaxSporeHits, on the first
\* and the last vulnerable frame of a round, while at most MaxSporeShots
\* spores have been fired; rejected calls are explored everywhere.
SporeDamage ==
  \E damage \in SporeDamages :
    LET Store(r, accepted) ==
          /\ accepted => /\ budget.hits < MaxSporeHits
                         /\ g_boss.ai_timer \in {0, SS_VULN_FRAMES - 1}
                         /\ p_count <= MaxSporeShots
          /\ g_boss' = r.boss
          /\ g_camera' = r.camera
          /\ op' = Call("boss_damage", <<damage>>, IF accepted THEN 1 ELSE 0,
                        <<g_boss.ai_state>>)
          /\ budget' = IF accepted THEN [budget EXCEPT !.hits = @ + 1] ELSE budget
          /\ UNCHANGED <<e_pool, e_count, p_pool, p_count, g_player, g_current_room>>
        Hit(r) == Store(r, r.boss # g_boss)
    IN Hit(boss_damage(World(g_boss, p_pool, p_count, g_player, g_camera), damage))

NextSpore ==
  \/ SporeUpdate
  \/ SporeDamage

SpecSpore == InitSpore /\ [][NextSpore]_vars

\* The game loop calls boss_update once per frame: the frame counter's
\* parity keeps flipping.
SporeFrame ==
  \E since \in 0..(SporeGap + 1) :
    budget' = [budget EXCEPT !.ticks = 1 - @, !.since = since]

FairSpore == SpecSpore /\ WF_budget(SporeFrame)

\* Spore Spawn has not been killed.
SporeAlive == g_boss.active /\ g_boss.ai_state # SS_DEATH

\* The sub-state that follows s in the cycle.
SporeNext(s) ==
  CASE s = SS_SWING -> SS_DESCEND
    [] s = SS_DESCEND -> SS_OPEN
    [] s = SS_OPEN -> SS_VULNERABLE
    [] s = SS_VULNERABLE -> SS_CLOSE
    [] s = SS_CLOSE -> SS_ASCEND
    [] s = SS_ASCEND -> SS_SWING
    [] OTHER -> s

\* C39: Spore Spawn's vulnerable flag is true exactly in the VULNERABLE
\* sub-state and only there does a boss_damage call take hp; while it is
\* not killed its sub-state changes only along the cycle swing, descend,
\* open, vulnerable, close, ascend, swing, it is never more than SporeGap
\* boss_update calls away from its last vulnerable frame, and it is
\* vulnerable again and again.
C39_VulnerabilityCycle ==
  /\ [](g_boss.vulnerable <=> g_boss.active /\ g_boss.ai_state = SS_VULNERABLE)
  /\ [][/\ g_boss'.hp < g_boss.hp
           => op'.name = "boss_damage" /\ g_boss.ai_state = SS_VULNERABLE
        /\ op'.name = "boss_update" /\ SporeAlive /\ g_boss'.ai_state # g_boss.ai_state
           => g_boss'.ai_state = SporeNext(g_boss.ai_state)
       ]_vars
  /\ [](SporeAlive => budget.since <= SporeGap)
  /\ []<>(~SporeAlive \/ g_boss.vulnerable)

\* A second round: Spore Spawn, hit once and alive, is vulnerable again
\* with spores of the first round in the pool.
C39_Witness ==
  /\ g_boss.vulnerable
  /\ g_boss.ai_state = SS_VULNERABLE
  /\ g_boss.ai_timer = 0
  /\ g_boss.hp = SS_HP - 300
  /\ p_count >= 2
  /\ budget.since = 0

\* C40: a room_load call with an id that is not in the room table returns
\* false and changes nothing: the room loaded before stays loaded, with its
\* dimensions and its collision grid.
C40_UnknownRoomKeepsRoom ==
  [][op'.name = "room_load" /\ op'.args[2] \notin {0, 1}
       => /\ op'.ret = 0
          /\ g_current_room' = g_current_room
    ]_vars

====
